---- MODULE Spec2Model ----
(***************************************************************************)
(* A model of the crypto-dashboard server: the per-client rate limiter,    *)
(* the Socket.io connection handlers and rooms, the price state store,     *)
(* the two ingestion strategies and the broadcast of price facts.          *)
(*                                                                         *)
(* Time is the value of Date.now() in milliseconds.  One handler of the    *)
(* event loop is one action; an await on network I/O splits a handler in   *)
(* two actions.                                                            *)
(***************************************************************************)
EXTENDS Integers, Sequences, FiniteSets, TLC

VARIABLES
    now,            \* Date.now()
    advances,       \* number of clock advances taken (bounded)
    \* utils/rateLimiter.ts
    rateLimiters,   \* Map clientId -> {count, resetAt}: a function on the ids that have state
    rlCaller,       \* history: the id of the latest isRateLimited call(s), or NoId
    rlResults,      \* history: the results of the latest call(s), in call order
    rlPrev,         \* history: the limiter state of rlCaller before the latest call(s)
    rlElapsed,      \* history: whether the window of rlCaller had elapsed before them
    winStart,       \* history: per id, the time of the call that opened the current window
    winCalls,       \* history: per id, the number of calls since that call (itself included)
    winPass,        \* history: per id, the number of those calls that returned false
    passLog,        \* history: per id, time -> number of calls that passed at that time
    unswept,        \* history: the limiter map, the results of the latest call(s) and the
                    \* entry they found, had the cleanup interval never fired
    rlSteps,        \* number of call actions taken (bounded)
    \* dataService.ts
    currentPrices,  \* symbol -> price (in cents); a function on the keys of the object
    priceHistory,   \* symbol -> {price24hAgo, lastUpdate}
    memoryCache,    \* Map key -> {data, timestamp}
    updateBuffer,   \* startConsumer's Map symbol -> PriceData
    ticks,          \* number of timer ticks taken (bounded)
    deliveries,     \* number of queue deliveries taken (bounded)
    staged,         \* history: per symbol, price and time of the fact staged last since the drain
    drained,        \* history: what was staged when the broadcast interval fired last
    nextTickAt,     \* earliest time the price interval fires next (-1: not set)
    nextSweepAt,    \* earliest time the limiter's cleanup interval fires next
    \* redis.ts and the Redis server behind it
    redisAvailable, \* the liveness flag
    redisConn,      \* redisClient.connect(): "connecting", "ready" or "failed"
    redisStore,     \* the server's keys: key -> {value, expireAt}
    redisQueue,     \* the commands sent and not yet answered, oldest first
    \* services/rabbitmq.ts and startPriceUpdates
    rabbit,         \* RabbitMQService: {connection, channel, connecting}
    startup,        \* where startPriceUpdates / startConsumer stand
    adapter,        \* the adapter of the Socket.io server: "none", "memory" or "redis"
    attempts,       \* history: the reconnections of the Redis client with their delays,
                    \* and the calls of amqp.connect
    brokerCalls,    \* the calls of rabbitMQ.connect() in progress, call by call, and
                    \* history: the outcome of each attempt
    probe,          \* what the probe rabbitMQ.connect() returned
    generatorOn,    \* startInternalGenerator's interval is set
    consumerOn,     \* channel.consume registered the queue callback
    broadcastLoopOn,\* startConsumer's broadcast interval is set
    lastAck,        \* history: what the latest delivery was answered with
    \* socket.ts
    sockets,        \* per socket id: its place in its life
    rooms,          \* the adapter's rooms: per socket id, the rooms it is in
    connectionCount,
    handled,        \* per socket id, the number of its messages handled (bounded)
    emitted,        \* history: the events the latest action sent, in order
    lastOp,         \* history: the latest handler run and what it was given
    firstRecv,      \* history: per socket id, the first event sent to it
    seen,           \* history: per socket id and symbol, the timestamp broadcast to it last
    initialSent     \* history: per socket id, the number of initial snapshots sent to it

rlVars == <<rateLimiters, rlCaller, rlResults, rlPrev, rlElapsed,
            winStart, winCalls, winPass, passLog, unswept, rlSteps>>
rlHistory == <<rlCaller, rlResults, rlPrev, rlElapsed,
               winStart, winCalls, winPass, passLog, unswept, rlSteps>>
storeVars == <<currentPrices, priceHistory, memoryCache, updateBuffer, ticks, deliveries,
              staged, drained>>
redisVars == <<redisAvailable, redisConn, redisStore, redisQueue>>
startVars == <<rabbit, startup, adapter, attempts, brokerCalls, probe, generatorOn, consumerOn, broadcastLoopOn,
              lastAck>>
sockVars == <<sockets, rooms, connectionCount, handled, emitted, lastOp,
              firstRecv, initialSent, seen>>
timerVars == <<nextTickAt, nextSweepAt>>
vars == <<now, advances, timerVars, rlVars, storeVars, redisVars, startVars, sockVars>>

(***************************************************************************)
(* Bounds of the model.                                                    *)
(***************************************************************************)
MaxRlSteps == 3
MaxAdvances == 3
MaxTicks == 2
MaxDeliveries == 2
MaxMsgs == 2
MaxPending == 2
MaxSockSteps == 3
MaxFeedSteps == 5
MaxPriceSteps == 4
MaxBrokerCalls == 3
MaxRetries == 5

\* The clients (socket ids) of the model.
Ids == {"c1", "c2"}
NoId == "none"

\* The steps the clock takes between two handlers, in ms.
Deltas == {1, 1000, 5000}

\* The step of the clock while serving: longer than a price interval, than
\* the freshness of the caches (3 s) and than a limiter window.
SockDeltas == {5000}

\* The numbers of back-to-back isRateLimited calls one action makes (the
\* tests call it 100 times in a loop).
Bursts == {1, 100}

(***************************************************************************)
(* utils/rateLimiter.ts                                                    *)
(***************************************************************************)
MAX_MESSAGES_PER_SECOND == 100

\* setInterval(cleanupRateLimiters, 10000)
CLEANUP_INTERVAL == 10000

NoLimiter == [count |-> 0, resetAt |-> -1]

\* rateLimiters.get(clientId), NoLimiter standing for undefined.
GetLimiter(rl, clientId) ==
    IF clientId \in DOMAIN rl THEN rl[clientId] ELSE NoLimiter

\* The comparison of the last line of isRateLimited.
OverLimitOffByOne(count) == count > MAX_MESSAGES_PER_SECOND + 1
OverLimit(count) == count > MAX_MESSAGES_PER_SECOND

\* The test that the window of a limiter has passed.
WindowElapsedAtEnd(t, limiter) == t >= limiter.resetAt
WindowElapsed(t, limiter) == t > limiter.resetAt

\* The limiter a call leaves when the window has elapsed.
ResetLimiterKeepCount(t, limiter) == [count |-> limiter.count + 1, resetAt |-> t + 1000]
ResetLimiter(t, limiter) == [count |-> 1, resetAt |-> t + 1000]

\* isRateLimited(clientId) at time t: the new map and the returned value.
IsRateLimited(rl, clientId, t) ==
    IF clientId \notin DOMAIN rl
    THEN [rl |-> (clientId :> [count |-> 1, resetAt |-> t + 1000]) @@ rl,
          limited |-> FALSE]
    ELSE IF WindowElapsed(t, rl[clientId])
    THEN [rl |-> [rl EXCEPT ![clientId] = ResetLimiter(t, rl[clientId])],
          limited |-> FALSE]
    ELSE LET c == rl[clientId].count + 1
         IN  [rl |-> [rl EXCEPT ![clientId].count = c],
              limited |-> OverLimit(c)]

\* n calls of isRateLimited(clientId) in a row at time t (the loop of the
\* tests): the new map and the sequence of the returned values.  The calls
\* are made in order, the first half before the rest; the test on
\* Len(a.results) makes the first half a value before the rest is started.
RECURSIVE IsRateLimitedTimes(_, _, _, _)
IsRateLimitedTimes(rl, clientId, t, n) ==
    IF n = 0
    THEN [rl |-> rl, results |-> <<>>]
    ELSE IF n = 1
    THEN LET r == IsRateLimited(rl, clientId, t)
         IN  [rl |-> r.rl, results |-> <<r.limited>>]
    ELSE LET h == n \div 2
             a == IsRateLimitedTimes(rl, clientId, t, h)
         IN  IF Len(a.results) = h
             THEN LET b == IsRateLimitedTimes(a.rl, clientId, t, n - h)
                  IN  [rl |-> b.rl, results |-> a.results \o b.results]
             ELSE a

\* The entries cleanupRateLimiters deletes at time t.
SweptInWindow(rl, t) == {id \in DOMAIN rl : t > rl[id].resetAt - 1000}
SweptAtGrace(rl, t) == {id \in DOMAIN rl : t >= rl[id].resetAt + 5000}
Swept(rl, t) == {id \in DOMAIN rl : t > rl[id].resetAt + 5000}

\* cleanupRateLimiters() at time t.
CleanupRateLimiters(rl, t) ==
    [id \in (DOMAIN rl) \ Swept(rl, t) |-> rl[id]]

(***************************************************************************)
(* History of the calls, kept beside the limiter and never read by it.     *)
(***************************************************************************)
NumFalse(results) == Cardinality({i \in 1..Len(results) : ~results[i]})

RECURSIVE SumOver(_, _)
SumOver(f, S) ==
    IF S = {} THEN 0
    ELSE LET x == CHOOSE y \in S : TRUE IN f[x] + SumOver(f, S \ {x})

\* Calls of id that passed less than one second before t (t included).
PassedInLastSecond(log, t) ==
    SumOver(log, {u \in DOMAIN log : t - u < 1000})

\* The window history of id after n calls at time t with the given results:
\* a window is opened by the first call of an id and by the first call made
\* more than 1000 ms after the call that opened the previous one.
HistoryAfter(id, t, n, results) ==
    LET opens == winStart[id] < 0 \/ t > winStart[id] + 1000
        rest  == IF opens THEN Tail(results) ELSE results
    IN  [start |-> IF opens THEN t ELSE winStart[id],
         calls |-> IF opens THEN n ELSE winCalls[id] + n,
         pass  |-> IF opens THEN NumFalse(results) ELSE winPass[id] + NumFalse(results)]

\* The run without cleanup after the same n calls.  isRateLimited reads and
\* writes the entry of its id only: where that run holds the entry the map
\* holds, the calls do in it what they did to the map, and where it holds
\* another (the map's was deleted) they are made on it.
UnsweptAfter(id, t, n, results) ==
    IF GetLimiter(unswept.rl, id) = GetLimiter(rateLimiters, id)
    THEN [rl |-> (id :> rateLimiters'[id]) @@ unswept.rl,
          results |-> results,
          prev |-> GetLimiter(unswept.rl, id)]
    ELSE LET r == IsRateLimitedTimes(unswept.rl, id, t, n)
         IN  [rl |-> r.rl, results |-> r.results, prev |-> GetLimiter(unswept.rl, id)]

RecordCalls(id, t, n, results) ==
    LET h   == HistoryAfter(id, t, n, results)
        old == IF t \in DOMAIN passLog[id] THEN passLog[id][t] ELSE 0
    IN  /\ rlCaller' = id
        /\ rlResults' = results
        /\ rlPrev' = GetLimiter(rateLimiters, id)
        /\ rlElapsed' = (id \in DOMAIN rateLimiters /\ now > rateLimiters[id].resetAt)
        /\ unswept' = UnsweptAfter(id, t, n, results)
        /\ winStart' = [winStart EXCEPT ![id] = h.start]
        /\ winCalls' = [winCalls EXCEPT ![id] = h.calls]
        /\ winPass' = [winPass EXCEPT ![id] = h.pass]
        /\ passLog' = [passLog EXCEPT ![id] =
                          (t :> (old + NumFalse(results))) @@ passLog[id]]

NoCalls ==
    /\ rlCaller' = NoId
    /\ rlResults' = <<>>
    /\ rlPrev' = NoLimiter
    /\ rlElapsed' = FALSE
    /\ unswept' = [unswept EXCEPT !.results = <<>>, !.prev = NoLimiter]
    /\ UNCHANGED <<winStart, winCalls, winPass, passLog>>

(***************************************************************************)
(* dataService.ts: the price state store.  Prices are whole cents;          *)
(* Math.random() is a whole number of hundredths (0..99), a volatility a    *)
(* whole number of hundredths of a percent, change24h a whole number of     *)
(* hundredths of a percent (the two decimals toFixed(2) keeps).             *)
(***************************************************************************)
SYMBOLS == <<"BTC", "ETH", "SOL", "ADA", "DOT", "AVAX", "MATIC", "LINK">>

KnownSymbols == {SYMBOLS[i] : i \in 1..Len(SYMBOLS)}

\* SYMBOLS.includes(symbol)
Includes(seq, x) == \E i \in 1..Len(seq) : seq[i] = x

initialPrices ==
    [BTC |-> 4500000, ETH |-> 250000, SOL |-> 10000, ADA |-> 50,
     DOT |-> 750, AVAX |-> 3500, MATIC |-> 85, LINK |-> 1500]

\* null / undefined, and the test for it.
Null == [null |-> TRUE]

Abs(x) == IF x < 0 THEN -x ELSE x

\* round(p * m / 10^6) for p, m >= 0, computed in parts that stay small.
MulMillionths(p, m) ==
    LET a   == (p \div 1000) * m
        rem == (a % 1000) * 1000 + (p % 1000) * m
    IN  (a \div 1000) + (rem \div 1000000)
        + (IF 2 * (rem % 1000000) >= 1000000 THEN 1 ELSE 0)

\* generatePriceChange(currentPrice, volatility) with Math.random() = rand/100:
\* change = (rand/100 - 0.48) * volatility / 100, the result currentPrice * (1 + change).
generatePriceChangeAdditive(currentPrice, volatility, rand) ==
    currentPrice + (rand - 48) * volatility
generatePriceChange(currentPrice, volatility, rand) ==
    LET k == (rand - 48) * volatility      \* the change, in millionths
        d == MulMillionths(Abs(currentPrice), Abs(k))
    IN  IF (k < 0) = (currentPrice < 0) THEN currentPrice + d ELSE currentPrice - d

\* The volatility updatePrices gives a symbol.
Volatility(symbol) ==
    IF symbol \in {"SOL", "AVAX"} THEN 30
    ELSE IF symbol \in {"BTC", "ETH"} THEN 15
    ELSE 20

\* ((currentPrice - price24hAgo) / price24hAgo) * 100, to two decimals, in
\* hundredths of a percent; the quotient is taken digit pair by digit pair.
Change24hTruncated(currentPrice, price24hAgo) ==
    LET n  == Abs(currentPrice - price24hAgo)
        d  == Abs(price24hAgo)
        x1 == (n % d) * 100
        x2 == (x1 % d) * 100
        q  == (n \div d) * 10000 + (x1 \div d) * 100 + (x2 \div d)
    IN  IF (currentPrice - price24hAgo < 0) = (price24hAgo < 0) THEN q ELSE -q
Change24h(currentPrice, price24hAgo) ==
    LET n  == Abs(currentPrice - price24hAgo)
        d  == Abs(price24hAgo)
        x1 == (n % d) * 100
        x2 == (x1 % d) * 100
        q  == (n \div d) * 10000 + (x1 \div d) * 100 + (x2 \div d)
             + (IF 2 * (x2 % d) >= d THEN 1 ELSE 0)
    IN  IF (currentPrice - price24hAgo < 0) = (price24hAgo < 0) THEN q ELSE -q

\* getPriceData(symbol) at time t; mock is the draw of Math.random() behind
\* the mock volume and market cap.
getPriceData(prices, history, symbol, t, mock) ==
    [symbol    |-> symbol,
     price     |-> prices[symbol],
     change24h |-> Change24h(prices[symbol], history[symbol].price24hAgo),
     timestamp |-> t,
     volume24h |-> mock,
     marketCap |-> prices[symbol] * mock]

\* getCurrentPrices()
getCurrentPrices(prices, history, t, mock) ==
    [i \in 1..Len(SYMBOLS) |-> getPriceData(prices, history, SYMBOLS[i], t, mock)]

\* The hourly rebase test of updatePrices and of the consumer callback.
RebaseDueAtHour(t, lastUpdate) == t - lastUpdate >= 3600000
RebaseDue(t, lastUpdate) == t - lastUpdate > 3600000

\* updatePrices() at time t, draw[symbol] being the draw of Math.random()
\* for the symbol: the new prices and the new history.
updatePrices(prices, history, t, draw) ==
    LET new == [k \in DOMAIN prices |->
                   IF k \in KnownSymbols
                   THEN generatePriceChange(prices[k], Volatility(k), draw[k])
                   ELSE prices[k]]
    IN  [prices  |-> new,
         history |-> [k \in DOMAIN history |->
                         IF RebaseDue(t, history[k].lastUpdate)
                         THEN [price24hAgo |-> new[k], lastUpdate |-> t]
                         ELSE history[k]]]

PriceKey(symbol) == "price:" \o symbol

\* A Map after map.set(key, value).
MapSet(map, key, value) ==
    [k \in (DOMAIN map) \cup {key} |-> IF k = key THEN value ELSE map[k]]

\* The symbols of a list of price data, in order.
SymbolsOf(priceData) == [i \in 1..Len(priceData) |-> priceData[i].symbol]

\* The last entry of the list for a symbol (a later one overwrites).
LastFor(priceData, symbol) ==
    LET i == CHOOSE j \in 1..Len(priceData) :
                 /\ priceData[j].symbol = symbol
                 /\ \A m \in (j + 1)..Len(priceData) : priceData[m].symbol # symbol
    IN  priceData[i]

\* broadcastUpdates: memoryCache after the forEach that stores every entry.
StoreInMemoryCache(cache, priceData, t) ==
    LET keys == {PriceKey(priceData[i].symbol) : i \in 1..Len(priceData)}
    IN  [k \in (DOMAIN cache) \cup keys |->
            IF k \in keys
            THEN [data |-> LastFor(priceData,
                              CHOOSE sym \in {priceData[i].symbol : i \in 1..Len(priceData)} :
                                  PriceKey(sym) = k),
                  timestamp |-> t]
            ELSE cache[k]]

(***************************************************************************)
(* redis.ts: the cache helpers, and the Redis server's answers.             *)
(***************************************************************************)
\* JSON.stringify of a value and JSON.parse of its text.
JsonStringify(value) == [json |-> value]
JsonParse(text) == text.json

\* Every helper starts with the test of the flag.
ShortCircuitsNever(available) == FALSE
ShortCircuits(available) == ~available

\* The server after the pipeline of cache.mset(keyValuePairs, ttlSeconds)
\* ran at time t: one SET key value EX ttl per entry.
RedisAfterMset(store, priceData, ttlSeconds, t) ==
    LET keys == {PriceKey(priceData[i].symbol) : i \in 1..Len(priceData)}
    IN  [k \in (DOMAIN store) \cup keys |->
            IF k \in keys
            THEN [value |-> JsonStringify(
                              LastFor(priceData,
                                CHOOSE sym \in {priceData[i].symbol : i \in 1..Len(priceData)} :
                                    PriceKey(sym) = k)),
                  expireAt |-> t + ttlSeconds * 1000]
            ELSE store[k]]

\* The server's answer to GET key at time t.
RedisGet(store, key, t) ==
    IF key \in DOMAIN store /\ t < store[key].expireAt THEN store[key].value ELSE Null

\* cache.mget(keys) answered at time t: ok says whether the command succeeded.
CacheMget(available, store, keys, t, ok) ==
    IF ~available \/ ~ok
    THEN [i \in 1..Len(keys) |-> Null]
    ELSE [i \in 1..Len(keys) |->
             LET v == RedisGet(store, keys[i], t)
             IN  IF v = Null THEN Null ELSE JsonParse(v)]

\* The command Redis answers next: those of one connection in their order.
AnsweredLast(queue) == Len(queue)
Answered(queue) == 1

Without(queue, i) == [j \in 1..(Len(queue) - 1) |-> IF j < i THEN queue[j] ELSE queue[j + 1]]

\* getAllPrices() once cache.mget has answered with cached.
MemoryFreshAtTtl(t, timestamp) == t - timestamp <= 3000
MemoryFreshAlways(t, timestamp) == TRUE
MemoryFresh(t, timestamp) == t - timestamp < 3000

getAllPricesMixed(cached, cache, prices, history, t, mock) ==
    [i \in 1..Len(SYMBOLS) |->
        LET k == PriceKey(SYMBOLS[i])
        IN  IF cached[i] # Null THEN cached[i]
            ELSE IF k \in DOMAIN cache /\ t - cache[k].timestamp < 3000 THEN cache[k].data
            ELSE getPriceData(prices, history, SYMBOLS[i], t, mock)]
getAllPricesCachedOnly(cached, cache, prices, history, t, mock) ==
    SelectSeq(cached, LAMBDA x : x # Null)
getAllPrices(cached, cache, prices, history, t, mock) ==
    IF \A i \in 1..Len(cached) : cached[i] # Null
    THEN cached
    ELSE LET memoryCached ==
                 [i \in 1..Len(SYMBOLS) |->
                     LET k == PriceKey(SYMBOLS[i])
                     IN  IF k \in DOMAIN cache /\ MemoryFresh(t, cache[k].timestamp)
                         THEN cache[k].data
                         ELSE Null]
         IN  IF \A i \in 1..Len(memoryCached) : memoryCached[i] # Null
             THEN memoryCached
             ELSE getCurrentPrices(prices, history, t, mock)

(***************************************************************************)
(* socket.ts: rooms and events.  A socket is "idle" before it connects,     *)
(* "awaiting" while the connection handler awaits getAllPrices(), "open"    *)
(* once the handler has registered the message handlers, "gone" when it    *)
(* disconnected while the handler was still awaiting, "closed" at the end.  *)
(***************************************************************************)
RoomOf(symbol) == "crypto:" \o symbol

AllRoom == "crypto:all"

Connected(c) == sockets[c] \in {"awaiting", "open"}

\* The message handlers run only for a connected socket that has them.
Open(c) == sockets[c] = "open"

\* socket.emit(ev, data): nothing is sent on a disconnected socket.
SocketEmit(c, alive, ev, data) ==
    IF alive THEN <<[to |-> c, ev |-> ev, data |-> data]>> ELSE <<>>

\* io.to(room).emit(ev, data)
RoomEmit(room, ev, data) == <<[to |-> room, ev |-> ev, data |-> data]>>

\* The sockets an emitted event reaches, rms being the rooms at that time:
\* a room reaches its members that are still connected.
Recipients(e, rms) ==
    IF e.to \in Ids THEN {e.to} ELSE {c \in Ids : Connected(c) /\ e.to \in rms[c]}

\* symbols as an array: if (!Array.isArray(symbols)) symbols = [symbols]
AsArray(symbols) == IF symbols.array THEN symbols.value ELSE <<symbols.value>>

\* The rooms of a socket after the forEach of the subscribe handler.
JoinedAnySymbol(rms, list) == rms \cup {RoomOf(list[i]) : i \in 1..Len(list)}
JoinedRooms(rms, list) ==
    rms \cup {RoomOf(list[i]) : i \in {j \in 1..Len(list) : Includes(SYMBOLS, list[j])}}

\* The rooms of a socket after the forEach of the unsubscribe handler.
LeftEveryRoom(rms, list) == {}
LeftRooms(rms, list) == rms \ {RoomOf(list[i]) : i \in 1..Len(list)}

\* rateLimiters.delete(id)
MapDelete(map, key) == [k \in (DOMAIN map) \ {key} |-> map[k]]

\* broadcastUpdates: the events of the two emit loops, in order.
TargetedToAll(priceData) ==
    [i \in 1..Len(priceData) |->
        [to |-> AllRoom, ev |-> "price-update", data |-> priceData[i]]]
TargetedUpdates(priceData) ==
    [i \in 1..Len(priceData) |->
        [to |-> RoomOf(priceData[i].symbol), ev |-> "price-update", data |-> priceData[i]]]

BulkTwice(priceData) ==
    RoomEmit(AllRoom, "price-update-bulk", priceData)
        \o RoomEmit(AllRoom, "price-update-bulk", priceData)
BulkUpdate(priceData) == RoomEmit(AllRoom, "price-update-bulk", priceData)

BroadcastEmits(priceData) == TargetedUpdates(priceData) \o BulkUpdate(priceData)

(***************************************************************************)
(* History of the events sent.                                             *)
(***************************************************************************)
NoEvent == [ev |-> "none", initial |-> FALSE, symbols |-> <<>>]

NoOp == [op |-> "none", sock |-> NoId, arg |-> <<>>, results |-> <<>>,
         roomsBefore |-> [c \in Ids |-> {}]]

Summary(e, initial) ==
    [ev |-> e.ev, initial |-> initial,
     symbols |-> IF e.ev = "price-update-bulk" THEN SymbolsOf(e.data)
                 ELSE IF e.ev = "price-update" THEN <<e.data.symbol>>
                 ELSE <<>>]

\* The timestamp event e carries for symbol k, -1 if it carries none.
TimestampIn(e, k) ==
    IF e.ev = "price-update"
    THEN (IF e.data.symbol = k THEN e.data.timestamp ELSE -1)
    ELSE IF e.ev = "price-update-bulk"
    THEN (IF \E i \in 1..Len(e.data) : e.data[i].symbol = k
          THEN LastFor(e.data, k).timestamp ELSE -1)
    ELSE -1

\* The history of the timestamps of symbol k that reached c, after es.
SeenAfter(old, c, k, es, rms) ==
    LET got == {i \in 1..Len(es) : c \in Recipients(es[i], rms) /\ TimestampIn(es[i], k) >= 0}
    IN  IF got = {} THEN old
        ELSE [last |-> TimestampIn(es[CHOOSE i \in got : \A j \in got : j <= i], k),
              regressed |->
                  \/ old.regressed
                  \/ \E i \in got : TimestampIn(es[i], k) < old.last
                  \/ \E i, j \in got : i < j /\ TimestampIn(es[j], k) < TimestampIn(es[i], k)]

\* The latest action sent es (initial: from the connection handler), rms
\* being the rooms when it did.
Sent(es, rms, initial) ==
    /\ emitted' = es
    /\ seen' = IF initial THEN seen
               ELSE [c \in Ids |-> [k \in KnownSymbols |-> SeenAfter(seen[c][k], c, k, es, rms)]]
    /\ firstRecv' =
          [c \in Ids |->
              IF firstRecv[c] = NoEvent /\ \E i \in 1..Len(es) : c \in Recipients(es[i], rms)
              THEN LET i == CHOOSE j \in 1..Len(es) :
                              /\ c \in Recipients(es[j], rms)
                              /\ \A m \in 1..(j - 1) : c \notin Recipients(es[m], rms)
                   IN  Summary(es[i], initial)
              ELSE firstRecv[c]]

\* The events of the latest action that reached socket c.
Received(c) ==
    {i \in 1..Len(emitted) : c \in Recipients(emitted[i], rooms)}

(***************************************************************************)
(* dataService.ts: the queue consumer's callback and its buffer.            *)
(***************************************************************************)
\* updateBuffer.set(symbol, fullData): a Map keeps the place of a key it has.
BufferAppend(buffer, symbol, fullData) == Append(buffer, fullData)
BufferSet(buffer, symbol, fullData) ==
    IF \E i \in 1..Len(buffer) : buffer[i].symbol = symbol
    THEN [i \in 1..Len(buffer) |->
             IF buffer[i].symbol = symbol THEN fullData ELSE buffer[i]]
    ELSE Append(buffer, fullData)

\* currentPrices[data.symbol] = data.price
ApplyPriceIfHigher(prices, symbol, price) ==
    IF symbol \in DOMAIN prices /\ prices[symbol] > price
    THEN prices
    ELSE MapSet(prices, symbol, price)
ApplyPrice(prices, symbol, price) == MapSet(prices, symbol, price)

\* if (data && data.symbol && data.price): a field that is missing reads
\* undefined, written "" for the symbol and 0 for the price, which are falsy
\* as well.
HasFactAnyPrice(data) == data # Null /\ data.symbol # ""
HasFact(data) == data # Null /\ data.symbol # "" /\ data.price # 0

\* The callback startConsumer gives rabbitMQ.consume, run on the parsed data
\* at time t: the new store and buffer, and whether it threw.
ConsumeCallback(prices, history, buffer, data, t, mock) ==
    IF ~HasFact(data)
    THEN [prices |-> prices, history |-> history, buffer |-> buffer, threw |-> FALSE]
    ELSE LET prices1 == ApplyPrice(prices, data.symbol, data.price)
         IN  IF data.symbol \notin DOMAIN history
             THEN \* priceHistory[data.symbol] is undefined: a TypeError
                  [prices |-> prices1, history |-> history, buffer |-> buffer,
                   threw |-> TRUE]
             ELSE LET history1 ==
                          IF RebaseDue(t, history[data.symbol].lastUpdate)
                          THEN [history EXCEPT ![data.symbol] =
                                   [price24hAgo |-> data.price, lastUpdate |-> t]]
                          ELSE history
                      base == getPriceData(prices1, history1, data.symbol, t, mock)
                      fullData ==
                          [base EXCEPT
                             !.volume24h = IF data.volume24h # 0 THEN data.volume24h ELSE @,
                             !.marketCap = IF data.marketCap # 0 THEN data.marketCap ELSE @]
                  IN  [prices |-> prices1, history |-> history1,
                       buffer |-> BufferSet(buffer, data.symbol, fullData),
                       threw |-> FALSE]

(***************************************************************************)
(* The inputs of the model.                                                *)
(***************************************************************************)
\* The draws of Math.random() behind the mock volume and market cap.
MockDraws == {3}

\* The draws of Math.random() of one updatePrices(), per symbol.
RandomDraws ==
    {[k \in KnownSymbols |-> 0],
     [k \in KnownSymbols |-> IF k \in {"BTC", "SOL"} THEN 99 ELSE 48]}

\* What clients send with subscribe and unsubscribe: a symbol or an array.
Payloads ==
    {[array |-> FALSE, value |-> "BTC"],
     [array |-> FALSE, value |-> "all"],
     [array |-> TRUE, value |-> <<"SOL", "DOGE">>]}

\* The client timestamps of ping.
Timestamps == {7}

\* The messages the queue delivers: text that is no JSON, and JSON data
\* (a missing number is 0, a missing symbol the empty string).
Garbage == [text |-> "garbage", data |-> Null]
Json(symbol, price, volume24h, marketCap) ==
    [text |-> "json",
     data |-> [symbol |-> symbol, price |-> price,
               volume24h |-> volume24h, marketCap |-> marketCap]]

Messages ==
    {Garbage,
     Json("BTC", 4600000, 11, 13),
     Json("SOL", 9000, 0, 0),
     Json("DOGE", 8, 0, 0),
     Json("ETH", 0, 5, 5),
     Json("", 7, 0, 0),
     Json("SOL", -20, 0, 0)}

SockMessages == {Json("BTC", 4600000, 11, 13), Json("SOL", 9000, 0, 0)}

\* startPriceUpdates(io, 1500)
interval == 1500

AllKeys == [i \in 1..Len(SYMBOLS) |-> PriceKey(SYMBOLS[i])]

NoBroker == [connection |-> "none", channel |-> "none", connecting |-> FALSE]
\* The callers of rabbitMQ.connect(): startPriceUpdates and, through
\* assertQueue, consume and publishToQueue.
BrokerCallers == {"k1", "k2"}

\* A call of connect(): where it stands, when its timer of 100 ms fires, the
\* number of the attempt it made or found in progress (0: none), and what it
\* returned.
NoCall == [pc |-> "idle", wakeAt |-> -1, joined |-> 0, result |-> "pending"]
NoBrokerCalls == [of |-> [k \in BrokerCallers |-> NoCall], outcomes |-> <<>>, calls |-> 0]

NoAttempts == [redisRetries |-> 0, redisDelays |-> <<>>, redisRetryAt |-> -1, broker |-> 0]

(***************************************************************************)
(* Initial values.                                                         *)
(***************************************************************************)
RlIdle ==
    /\ rateLimiters = << >>
    /\ rlCaller = NoId
    /\ rlResults = <<>>
    /\ rlPrev = NoLimiter
    /\ rlElapsed = FALSE
    /\ unswept = [rl |-> <<>>, results |-> <<>>, prev |-> NoLimiter]
    /\ winStart = [id \in Ids |-> -1]
    /\ winCalls = [id \in Ids |-> 0]
    /\ winPass = [id \in Ids |-> 0]
    /\ passLog = [id \in Ids |-> << >>]
    /\ rlSteps = 0

\* The module-level initialisation of dataService.ts, at time 0.
StoreInit ==
    /\ currentPrices = initialPrices
    /\ priceHistory = [k \in KnownSymbols |->
                          [price24hAgo |-> initialPrices[k], lastUpdate |-> 0]]
    /\ memoryCache = << >>
    /\ updateBuffer = <<>>
    /\ ticks = 0
    /\ deliveries = 0
    /\ staged = << >>
    /\ drained = << >>

SocketsInit ==
    /\ sockets = [c \in Ids |-> "idle"]
    /\ rooms = [c \in Ids |-> {}]
    /\ connectionCount = 0
    /\ handled = [c \in Ids |-> 0]
    /\ emitted = <<>>
    /\ lastOp = NoOp
    /\ firstRecv = [c \in Ids |-> NoEvent]
    /\ initialSent = [c \in Ids |-> 0]
    /\ seen = [c \in Ids |-> [k \in KnownSymbols |-> [last |-> -1, regressed |-> FALSE]]]

\* The process at the start of index.ts.
BootInit ==
    /\ now = 0
    /\ advances = 0
    /\ nextTickAt = -1
    /\ nextSweepAt = CLEANUP_INTERVAL
    /\ RlIdle
    /\ StoreInit
    /\ SocketsInit
    /\ redisAvailable = FALSE
    /\ redisConn = "connecting"
    /\ redisStore = << >>
    /\ redisQueue = <<>>
    /\ rabbit = NoBroker
    /\ startup = "boot"
    /\ adapter = "none"
    /\ attempts = NoAttempts
    /\ brokerCalls = NoBrokerCalls
    /\ probe = "none"
    /\ generatorOn = FALSE
    /\ consumerOn = FALSE
    /\ broadcastLoopOn = FALSE
    /\ lastAck = <<>>

\* The process once startup has settled, with the generator or with the
\* consumer, with or without Redis.
ServingInit ==
    /\ now = 0
    /\ advances = 0
    /\ nextTickAt = interval
    /\ nextSweepAt = CLEANUP_INTERVAL
    /\ RlIdle
    /\ StoreInit
    /\ SocketsInit
    /\ redisAvailable \in BOOLEAN
    /\ redisConn = (IF redisAvailable THEN "ready" ELSE "failed")
    /\ redisStore = << >>
    /\ redisQueue = <<>>
    /\ startup = "done"
    /\ adapter = "memory"
    /\ attempts = [redisRetries |-> IF redisAvailable THEN 0 ELSE 3,
                   redisDelays |-> IF redisAvailable THEN <<>> ELSE <<50, 100, 150>>,
                   redisRetryAt |-> -1,
                   broker |-> 1]
    /\ brokerCalls = NoBrokerCalls
    /\ probe \in {"channel", "absent"}
    /\ rabbit = (IF probe = "channel"
                 THEN [connection |-> "conn", channel |-> "ch", connecting |-> FALSE]
                 ELSE NoBroker)
    /\ generatorOn = (probe = "absent")
    /\ consumerOn = (probe = "channel")
    /\ broadcastLoopOn = (probe = "channel")
    /\ lastAck = <<>>

(***************************************************************************)
(* The clock and the rate limiter's own actions.                           *)
(***************************************************************************)
Quiet ==
    /\ emitted' = <<>>
    /\ lastOp' = NoOp
    /\ UNCHANGED <<sockets, rooms, connectionCount, handled, firstRecv, initialSent, seen>>

\* n calls isRateLimited(id) in a row.
RlCall(id, n) ==
    /\ rlSteps < MaxRlSteps
    /\ LET r == IsRateLimitedTimes(rateLimiters, id, now, n)
       IN  /\ rateLimiters' = r.rl
           /\ RecordCalls(id, now, n, r.results)
    /\ rlSteps' = rlSteps + 1
    /\ UNCHANGED <<now, advances, timerVars, storeVars, redisVars, startVars, sockVars>>

\* The 10 s interval fires cleanupRateLimiters.
RlSweep ==
    /\ now >= nextSweepAt
    /\ nextSweepAt' = now + CLEANUP_INTERVAL
    /\ rateLimiters' = CleanupRateLimiters(rateLimiters, now)
    /\ NoCalls
    /\ Quiet
    /\ UNCHANGED <<now, advances, nextTickAt, rlSteps, storeVars, redisVars, startVars>>

\* Time passes.
Advance(d) ==
    /\ advances < MaxAdvances
    /\ now' = now + d
    /\ advances' = advances + 1
    /\ passLog' = [id \in Ids |->
                     [u \in {v \in DOMAIN passLog[id] : now + d - v < 1000}
                        |-> passLog[id][u]]]
    /\ rlCaller' = NoId
    /\ rlResults' = <<>>
    /\ rlPrev' = NoLimiter
    /\ rlElapsed' = FALSE
    /\ unswept' = [unswept EXCEPT !.results = <<>>, !.prev = NoLimiter]
    /\ Quiet
    /\ UNCHANGED <<timerVars, rateLimiters, winStart, winCalls, winPass, rlSteps,
                   storeVars, redisVars, startVars>>

(***************************************************************************)
(* socket.ts: the connection handler and the message handlers.             *)
(***************************************************************************)
Op(op, c, arg, results) ==
    [op |-> op, sock |-> c, arg |-> arg, results |-> results, roomsBefore |-> rooms]

\* The connection handler from the answer of getAllPrices() on: the initial
\* emit, the join of the all group and the registration of the handlers.
\* alive: the socket did not disconnect while the handler was awaiting.
\* joins: socket.join has an effect; on a disconnected socket it has none
\* from Socket.io 4.5.2 on and adds the id to the room before that.
FinishConnection(c, alive, joins, cached, mock) ==
    LET allPrices == getAllPrices(cached, memoryCache, currentPrices, priceHistory, now, mock)
        es == SocketEmit(c, alive, "price-update-bulk", allPrices)
    IN  /\ Sent(es, rooms, TRUE)
        /\ initialSent' = [initialSent EXCEPT ![c] = @ + Len(es)]
        /\ rooms' = [rooms EXCEPT ![c] = IF joins THEN @ \cup {AllRoom} ELSE @]
        /\ sockets' = [sockets EXCEPT ![c] = IF alive THEN "open" ELSE "closed"]

\* io.on('connection'): without Redis the handler runs to its end before
\* anything else does; with Redis it stops at the await of cache.mget.
Connect(c, mock) ==
    /\ sockets[c] = "idle"
    /\ connectionCount' = connectionCount + 1
    /\ lastOp' = Op("connection", c, <<>>, <<>>)
    /\ IF redisAvailable
       THEN /\ Len(redisQueue) < MaxPending
            /\ redisQueue' = Append(redisQueue, [op |-> "mget", sock |-> c, data |-> <<>>])
            /\ sockets' = [sockets EXCEPT ![c] = "awaiting"]
            /\ Sent(<<>>, rooms, FALSE)
            /\ UNCHANGED <<rooms, initialSent>>
       ELSE /\ FinishConnection(c, TRUE, TRUE, CacheMget(FALSE, redisStore, AllKeys, now, TRUE), mock)
            /\ UNCHANGED redisQueue
    /\ NoCalls
    /\ UNCHANGED <<now, advances, timerVars, rateLimiters, rlSteps, handled, storeVars,
                   redisAvailable, redisConn, redisStore, startVars>>

\* Redis answers the MGET of a connection handler, which then runs to its end.
RedisAnswersMget(ok, mock, joins) ==
    /\ redisQueue # <<>>
    /\ redisQueue[Answered(redisQueue)].op = "mget"
    /\ LET c == redisQueue[Answered(redisQueue)].sock
           alive == sockets[c] = "awaiting"
       IN  /\ alive => joins
           /\ FinishConnection(c, alive, joins,
                               CacheMget(TRUE, redisStore, AllKeys, now, ok), mock)
           /\ lastOp' = Op("connected", c, <<>>, <<>>)
    /\ redisQueue' = Without(redisQueue, Answered(redisQueue))
    /\ NoCalls
    /\ UNCHANGED <<now, advances, timerVars, rateLimiters, rlSteps, handled, connectionCount,
                   storeVars, redisAvailable, redisConn, redisStore, startVars>>

\* The messages handled so far, over all sockets.
MessagesHandled == SumOver(handled, Ids)

\* socket.on('subscribe')
Subscribe(c, symbols) ==
    /\ Open(c)
    /\ MessagesHandled < MaxMsgs
    /\ LET r == IsRateLimited(rateLimiters, c, now)
           list == AsArray(symbols)
       IN  /\ rateLimiters' = r.rl
           /\ RecordCalls(c, now, 1, <<r.limited>>)
           /\ lastOp' = Op("subscribe", c, list, <<r.limited>>)
           /\ IF r.limited
              THEN /\ Sent(SocketEmit(c, TRUE, "error", "Rate limit exceeded"), rooms, FALSE)
                   /\ UNCHANGED rooms
              ELSE /\ rooms' = [rooms EXCEPT ![c] = JoinedRooms(@, list)]
                   /\ Sent(SocketEmit(c, TRUE, "subscribed", list), rooms, FALSE)
    /\ handled' = [handled EXCEPT ![c] = @ + 1]
    /\ UNCHANGED <<now, advances, timerVars, rlSteps, sockets, connectionCount, initialSent,
                   storeVars, redisVars, startVars>>

\* A subscribe that arrives while the connection handler awaits
\* getAllPrices(): socket.on('subscribe') has not run yet, the event has
\* no listener and the socket's emitter drops it.
SubscribeUnheard(c, symbols) ==
    /\ sockets[c] = "awaiting"
    /\ lastOp' = Op("unheard", c, AsArray(symbols), <<>>)
    /\ Sent(<<>>, rooms, FALSE)
    /\ NoCalls
    /\ UNCHANGED <<now, advances, timerVars, rateLimiters, rlSteps, sockets, rooms,
                   connectionCount, handled, initialSent, storeVars, redisVars, startVars>>

\* socket.on('unsubscribe')
Unsubscribe(c, symbols) ==
    /\ Open(c)
    /\ MessagesHandled < MaxMsgs
    /\ LET r == IsRateLimited(rateLimiters, c, now)
           list == AsArray(symbols)
       IN  /\ rateLimiters' = r.rl
           /\ RecordCalls(c, now, 1, <<r.limited>>)
           /\ lastOp' = Op("unsubscribe", c, list, <<r.limited>>)
           /\ IF r.limited
              THEN /\ Sent(<<>>, rooms, FALSE)
                   /\ UNCHANGED rooms
              ELSE /\ rooms' = [rooms EXCEPT ![c] = LeftRooms(@, list)]
                   /\ Sent(SocketEmit(c, TRUE, "unsubscribed", list), rooms, FALSE)
    /\ handled' = [handled EXCEPT ![c] = @ + 1]
    /\ UNCHANGED <<now, advances, timerVars, rlSteps, sockets, connectionCount, initialSent,
                   storeVars, redisVars, startVars>>

\* The pongs of n pings handled in a row, given what the limiter returned.
PongsForAll(c, timestamp, results) ==
    [i \in 1..Len(results) |-> [to |-> c, ev |-> "pong", data |-> timestamp]]
Pongs(c, timestamp, results) ==
    LET passed == {i \in 1..Len(results) : ~results[i]}
    IN  [i \in 1..Cardinality(passed) |-> [to |-> c, ev |-> "pong", data |-> timestamp]]

\* socket.on('ping'), for n pings that arrive together.
Ping(c, timestamp, n) ==
    /\ Open(c)
    /\ MessagesHandled < MaxMsgs
    /\ LET r == IsRateLimitedTimes(rateLimiters, c, now, n)
       IN  /\ rateLimiters' = r.rl
           /\ RecordCalls(c, now, n, r.results)
           /\ lastOp' = Op("ping", c, <<timestamp>>, r.results)
           /\ Sent(Pongs(c, timestamp, r.results), rooms, FALSE)
    /\ handled' = [handled EXCEPT ![c] = @ + 1]
    /\ UNCHANGED <<now, advances, timerVars, rlSteps, sockets, rooms, connectionCount, initialSent,
                   storeVars, redisVars, startVars>>

\* The socket disconnects.  Socket.io leaves all its rooms; the handler of
\* 'disconnect' runs if the connection handler has registered it.
Disconnect(c) ==
    /\ Connected(c)
    /\ rooms' = [rooms EXCEPT ![c] = {}]
    /\ lastOp' = Op("disconnect", c, <<>>, <<>>)
    /\ IF Open(c)
       THEN /\ connectionCount' = connectionCount - 1
            /\ rateLimiters' = MapDelete(rateLimiters, c)
            /\ sockets' = [sockets EXCEPT ![c] = "closed"]
       ELSE /\ sockets' = [sockets EXCEPT ![c] = "gone"]
            /\ UNCHANGED <<connectionCount, rateLimiters>>
    /\ Sent(<<>>, rooms, FALSE)
    /\ NoCalls
    /\ UNCHANGED <<now, advances, timerVars, rlSteps, handled, initialSent,
                   storeVars, redisVars, startVars>>

(***************************************************************************)
(* dataService.ts: ingestion and broadcast.                                *)
(***************************************************************************)
\* broadcastUpdates(io, priceData) up to its await: without Redis cache.mset
\* answers at once and the emits follow; with Redis they wait for its answer.
\* The emits of broadcastUpdates after its try/catch, written saying whether
\* cache.mset stored the facts.
EmitsIfWritten(written, priceData) == IF written THEN BroadcastEmits(priceData) ELSE <<>>
EmitsAfterWrite(written, priceData) == BroadcastEmits(priceData)

BroadcastUpdates(priceData) ==
    /\ memoryCache' = StoreInMemoryCache(memoryCache, priceData, now)
    /\ IF ~ShortCircuits(redisAvailable)
       THEN /\ redisQueue' = Append(redisQueue, [op |-> "mset", sock |-> NoId, data |-> priceData])
            /\ Sent(<<>>, rooms, FALSE)
            /\ lastOp' = Op("tick", NoId, priceData, <<>>)
       ELSE /\ Sent(EmitsAfterWrite(FALSE, priceData), rooms, FALSE)
            /\ lastOp' = Op("broadcast", NoId, priceData, <<FALSE>>)
            /\ UNCHANGED redisQueue

\* if (updateBuffer.size === 0) return
NothingStagedNever(buffer) == FALSE
NothingStaged(buffer) == Len(buffer) = 0

TickDue ==
    /\ nextTickAt >= 0
    /\ now >= nextTickAt
    /\ ticks < MaxTicks
    /\ redisAvailable => Len(redisQueue) < MaxPending

\* The interval of startInternalGenerator fires.
GeneratorTick(draw, mock) ==
    /\ generatorOn
    /\ TickDue
    /\ LET u == updatePrices(currentPrices, priceHistory, now, draw)
       IN  /\ currentPrices' = u.prices
           /\ priceHistory' = u.history
           /\ BroadcastUpdates(getCurrentPrices(u.prices, u.history, now, mock))
    /\ ticks' = ticks + 1
    /\ nextTickAt' = now + interval
    /\ NoCalls
    /\ UNCHANGED <<now, advances, nextSweepAt, rateLimiters, rlSteps, updateBuffer, deliveries,
                   staged, drained, redisAvailable, redisConn, redisStore, startVars,
                   sockets, rooms, connectionCount, handled, initialSent>>

\* The interval of startConsumer fires.
BroadcastTick ==
    /\ broadcastLoopOn
    /\ TickDue
    /\ IF NothingStaged(updateBuffer)
       THEN /\ Sent(<<>>, rooms, FALSE)
            /\ lastOp' = Op("tick", NoId, <<>>, <<>>)
            /\ UNCHANGED <<updateBuffer, memoryCache, redisQueue>>
       ELSE /\ updateBuffer' = <<>>
            /\ BroadcastUpdates(updateBuffer)
    /\ drained' = staged
    /\ staged' = << >>
    /\ ticks' = ticks + 1
    /\ nextTickAt' = now + interval
    /\ NoCalls
    /\ UNCHANGED <<now, advances, nextSweepAt, rateLimiters, rlSteps, currentPrices, priceHistory,
                   deliveries, redisAvailable, redisConn, redisStore, startVars,
                   sockets, rooms, connectionCount, handled, initialSent>>

\* Redis answers the pipeline of cache.mset; broadcastUpdates runs to its end.
RedisAnswersMset(ok) ==
    /\ redisQueue # <<>>
    /\ redisConn = "lost" => ~ok
    /\ redisQueue[Answered(redisQueue)].op = "mset"
    /\ LET priceData == redisQueue[Answered(redisQueue)].data
       IN  /\ redisStore' = IF ok THEN RedisAfterMset(redisStore, priceData, 3, now)
                            ELSE redisStore
           /\ Sent(EmitsAfterWrite(ok, priceData), rooms, FALSE)
           /\ lastOp' = Op("broadcast", NoId, priceData, <<ok>>)
    /\ redisQueue' = Without(redisQueue, Answered(redisQueue))
    /\ NoCalls
    /\ UNCHANGED <<now, advances, timerVars, rateLimiters, rlSteps, storeVars,
                   redisAvailable, redisConn, startVars,
                   sockets, rooms, connectionCount, handled, initialSent>>

\* RabbitMQService.consume: what the channel is told about a message, given
\* whether JSON.parse succeeded and whether the callback threw.
Ack == [kind |-> "ack", requeue |-> FALSE]
Nack(requeue) == [kind |-> "nack", requeue |-> requeue]

ConsumeRepliesRequeue(parsed, threw) ==
    IF parsed /\ ~threw THEN <<Ack>> ELSE <<Nack(TRUE)>>
ConsumeReplies(parsed, threw) ==
    IF parsed /\ ~threw THEN <<Ack>> ELSE <<Nack(FALSE)>>

\* A message that carries a fact for a known symbol.
Stageable(msg) ==
    /\ msg.text = "json"
    /\ msg.data.symbol \in KnownSymbols
    /\ msg.data.price # 0

\* The queue delivers msg to the callback of channel.consume.
Deliver(msg, mock) ==
    /\ consumerOn
    /\ rabbit.channel = "ch"
    /\ deliveries < MaxDeliveries
    /\ IF msg.text = "garbage"
       THEN \* JSON.parse throws
            /\ lastAck' = ConsumeReplies(FALSE, FALSE)
            /\ UNCHANGED <<currentPrices, priceHistory, updateBuffer>>
       ELSE LET r == ConsumeCallback(currentPrices, priceHistory, updateBuffer,
                                     msg.data, now, mock)
            IN  /\ currentPrices' = r.prices
                /\ priceHistory' = r.history
                /\ updateBuffer' = r.buffer
                /\ lastAck' = ConsumeReplies(TRUE, r.threw)
    /\ staged' = IF Stageable(msg)
                  THEN MapSet(staged, msg.data.symbol,
                              [price |-> msg.data.price, timestamp |-> now])
                  ELSE staged
    /\ UNCHANGED drained
    /\ deliveries' = deliveries + 1
    /\ Sent(<<>>, rooms, FALSE)
    /\ lastOp' = Op("deliver", NoId, <<msg>>, <<>>)
    /\ NoCalls
    /\ UNCHANGED <<now, advances, timerVars, rateLimiters, rlSteps, memoryCache, ticks,
                   redisVars, rabbit, startup, adapter, attempts, brokerCalls, probe, generatorOn, consumerOn,
                   broadcastLoopOn,
                   sockets, rooms, connectionCount, handled, initialSent>>

(***************************************************************************)
(* Startup: redis.ts connects, index.ts calls startPriceUpdates.            *)
(***************************************************************************)
Background ==
    /\ NoCalls
    /\ Quiet
    /\ UNCHANGED <<now, advances, nextSweepAt, rateLimiters, rlSteps, storeVars,
                   redisStore, redisQueue, lastAck>>

\* redis.connect() settles: .then sets redisAvailable, .catch clears it.
\* Neither callback runs before the module body of index.ts has run to its
\* end.
RedisConnectSettles(ok) ==
    /\ startup # "boot"
    /\ redisConn = "connecting"
    /\ redisConn' = (IF ok THEN "ready" ELSE "failed")
    /\ redisAvailable' = ok
    /\ Background
    /\ UNCHANGED <<nextTickAt, rabbit, startup, adapter, attempts, brokerCalls, probe, generatorOn, consumerOn,
                   broadcastLoopOn>>

\* redis.ts retryStrategy(times): the delay before reconnection number times,
\* Stop for null.
Stop == -1
retryStrategyForever(times) == IF times * 50 < 2000 THEN times * 50 ELSE 2000
retryStrategy(times) ==
    IF times > 3 THEN Stop
    ELSE IF times * 50 < 2000 THEN times * 50 ELSE 2000

\* An attempt of redisClient to connect settles.  The promise of connect()
\* settles with the first attempt, and its then or catch writes
\* redisAvailable; after a failed attempt the client calls retryStrategy with
\* the number of the reconnection and connects again after the delay it
\* returns, or gives up when it returns null.
RedisAttemptSettles(ok) ==
    /\ startup # "boot"
    /\ redisConn \in {"connecting", "reconnecting"}
    /\ redisConn = "reconnecting" => now >= attempts.redisRetryAt
    /\ attempts.redisRetries < MaxRetries
    /\ redisAvailable' = (IF redisConn = "connecting" THEN ok ELSE redisAvailable)
    /\ IF ok
       THEN /\ redisConn' = "ready"
            /\ attempts' = [attempts EXCEPT !.redisRetryAt = -1]
       ELSE LET times == attempts.redisRetries + 1
                delay == retryStrategy(times)
            IN  /\ redisConn' = (IF delay = Stop THEN "failed" ELSE "reconnecting")
                /\ attempts' = [attempts EXCEPT
                                   !.redisRetries = times,
                                   !.redisDelays = IF delay = Stop THEN @ ELSE Append(@, delay),
                                   !.redisRetryAt = IF delay = Stop THEN -1 ELSE now + delay]
    /\ Background
    /\ UNCHANGED <<nextTickAt, rabbit, startup, adapter, brokerCalls, probe, generatorOn,
                   consumerOn, broadcastLoopOn>>

\* initializeSocket: the adapter the server gets.
AdapterFor(available) == IF available THEN "redis" ELSE "memory"

\* The module body of index.ts: initializeSocket, then startPriceUpdates up
\* to the await of amqp.connect in rabbitMQ.connect().
StartPriceUpdates ==
    /\ startup = "boot"
    /\ adapter' = AdapterFor(redisAvailable)
    /\ attempts' = [attempts EXCEPT !.broker = @ + 1]
    /\ UNCHANGED brokerCalls
    /\ startup' = "connecting"
    /\ rabbit' = [rabbit EXCEPT !.connecting = TRUE]
    /\ Background
    /\ UNCHANGED <<nextTickAt, redisAvailable, redisConn, probe, generatorOn, consumerOn,
                   broadcastLoopOn>>

\* redisClient emits 'error' after it had connected, the connection being
\* lost: the handler logs the message and writes nothing.
RedisClientError ==
    /\ redisConn = "ready"
    /\ redisConn' = "lost"
    /\ UNCHANGED redisAvailable
    /\ Background
    /\ UNCHANGED <<nextTickAt, rabbit, startup, adapter, attempts, brokerCalls, probe, generatorOn, consumerOn,
                   broadcastLoopOn>>

\* startInternalGenerator: setInterval
StartInternalGenerator ==
    /\ generatorOn' = TRUE
    /\ nextTickAt' = now + interval
    /\ UNCHANGED <<consumerOn, broadcastLoopOn>>

\* amqp.connect settles; a rejection ends connect() with null and
\* startPriceUpdates starts the generator.
AmqpConnectSettles(ok) ==
    /\ startup = "connecting"
    /\ IF ok
       THEN /\ rabbit' = [rabbit EXCEPT !.connection = "conn"]
            /\ startup' = "creatingChannel"
            /\ UNCHANGED <<probe, generatorOn, consumerOn, broadcastLoopOn, nextTickAt>>
       ELSE /\ rabbit' = [rabbit EXCEPT !.connecting = FALSE]
            /\ probe' = "absent"
            /\ startup' = "done"
            /\ StartInternalGenerator
    /\ Background
    /\ UNCHANGED <<redisAvailable, redisConn, adapter, attempts, brokerCalls>>

\* createChannel settles.  With a channel, startPriceUpdates calls
\* startConsumer, which runs up to the await of channel.assertQueue.
CreateChannelSettles(ok) ==
    /\ startup = "creatingChannel"
    /\ IF ok
       THEN /\ rabbit' = [rabbit EXCEPT !.channel = "ch", !.connecting = FALSE]
            /\ probe' = "channel"
            /\ startup' = "assertingQueue"
            /\ UNCHANGED <<generatorOn, consumerOn, broadcastLoopOn, nextTickAt>>
       ELSE /\ rabbit' = [rabbit EXCEPT !.connecting = FALSE]
            /\ probe' = "absent"
            /\ startup' = "done"
            /\ StartInternalGenerator
    /\ Background
    /\ UNCHANGED <<redisAvailable, redisConn, adapter, attempts, brokerCalls>>

\* channel.assertQueue settles.  Resolved: consume() calls channel.consume
\* and startConsumer sets its interval.  Rejected: consume() and with it
\* startConsumer reject, and nothing after the await runs.
AssertQueueSettles(ok) ==
    /\ startup = "assertingQueue"
    /\ IF ok /\ rabbit.channel = "ch"
       THEN /\ consumerOn' = TRUE
            /\ broadcastLoopOn' = TRUE
            /\ nextTickAt' = now + interval
            /\ startup' = "done"
       ELSE /\ startup' = "rejected"
            /\ UNCHANGED <<consumerOn, broadcastLoopOn, nextTickAt>>
    /\ Background
    /\ UNCHANGED <<redisAvailable, redisConn, rabbit, probe, generatorOn, adapter, attempts, brokerCalls>>

\* The connection's 'error' or 'close' handler: this.close()
BrokerLostFailsOver ==
    /\ rabbit.channel = "ch"
    /\ rabbit' = [rabbit EXCEPT !.channel = "none", !.connection = "none"]
    /\ generatorOn' = TRUE
    /\ nextTickAt' = now + interval
    /\ Background
    /\ UNCHANGED <<redisAvailable, redisConn, startup, adapter, attempts, brokerCalls, probe, consumerOn,
                   broadcastLoopOn>>
BrokerLost ==
    /\ rabbit.channel = "ch"
    /\ rabbit' = [rabbit EXCEPT !.channel = "none", !.connection = "none"]
    /\ Background
    /\ UNCHANGED <<nextTickAt, redisAvailable, redisConn, startup, adapter, attempts, brokerCalls, probe, generatorOn,
                   consumerOn, broadcastLoopOn>>

\* What the actions of a call of connect() leave alone.
OnlyBroker ==
    /\ Background
    /\ UNCHANGED <<nextTickAt, redisAvailable, redisConn, startup, adapter, probe, generatorOn,
                   consumerOn, broadcastLoopOn>>

\* Caller k has call c and, with outcome given, the attempt of c has ended.
CallsAfter(k, c, ended, outcome) ==
    [brokerCalls EXCEPT
        !.of[k] = c,
        !.outcomes = IF ended THEN [@ EXCEPT ![c.joined] = outcome] ELSE @]

\* rabbitMQ.connect() up to its first await or its return.
ConnectCall(k) ==
    /\ brokerCalls.of[k].pc \in {"idle", "returned"}
    /\ brokerCalls.calls < MaxBrokerCalls
    /\ IF rabbit.channel # "none"
       THEN /\ brokerCalls' = [brokerCalls EXCEPT
                                  !.of[k] = [pc |-> "returned", wakeAt |-> -1, joined |-> 0,
                                             result |-> rabbit.channel],
                                  !.calls = @ + 1]
            /\ UNCHANGED <<rabbit, attempts>>
       ELSE IF rabbit.connecting
       THEN /\ brokerCalls' = [brokerCalls EXCEPT
                                  !.of[k] = [pc |-> "waiting", wakeAt |-> now + 100,
                                             joined |-> Len(brokerCalls.outcomes),
                                             result |-> "pending"],
                                  !.calls = @ + 1]
            /\ UNCHANGED <<rabbit, attempts>>
       ELSE /\ rabbit' = [rabbit EXCEPT !.connecting = TRUE]
            /\ attempts' = [attempts EXCEPT !.broker = @ + 1]
            /\ brokerCalls' = [brokerCalls EXCEPT
                                  !.of[k] = [pc |-> "amqpConnect", wakeAt |-> -1,
                                             joined |-> Len(brokerCalls.outcomes) + 1,
                                             result |-> "pending"],
                                  !.outcomes = Append(@, "pending"),
                                  !.calls = @ + 1]
    /\ OnlyBroker

\* The timer of a waiting call fires: while (this.connecting) await ...;
\* return this.channel
ConnectWakes(k) ==
    /\ brokerCalls.of[k].pc = "waiting"
    /\ now >= brokerCalls.of[k].wakeAt
    /\ brokerCalls' =
          IF rabbit.connecting
          THEN [brokerCalls EXCEPT !.of[k].wakeAt = now + 100]
          ELSE [brokerCalls EXCEPT !.of[k].pc = "returned", !.of[k].wakeAt = -1,
                                   !.of[k].result = rabbit.channel]
    /\ UNCHANGED <<rabbit, attempts>>
    /\ OnlyBroker

\* amqp.connect settles for the call that made the attempt.
ConnectAmqpSettles(k, ok) ==
    /\ brokerCalls.of[k].pc = "amqpConnect"
    /\ IF ok
       THEN /\ rabbit' = [rabbit EXCEPT !.connection = "conn"]
            /\ brokerCalls' = [brokerCalls EXCEPT !.of[k].pc = "createChannel"]
       ELSE /\ rabbit' = [rabbit EXCEPT !.connecting = FALSE]
            /\ brokerCalls' = CallsAfter(k, [brokerCalls.of[k] EXCEPT !.pc = "returned",
                                                                      !.result = "none"],
                                         TRUE, "none")
    /\ UNCHANGED attempts
    /\ OnlyBroker

\* createChannel settles for the call that made the attempt.
ConnectChannelSettles(k, ok) ==
    /\ brokerCalls.of[k].pc = "createChannel"
    /\ rabbit' = [rabbit EXCEPT !.channel = IF ok THEN "ch" ELSE @, !.connecting = FALSE]
    /\ brokerCalls' = CallsAfter(k, [brokerCalls.of[k] EXCEPT
                                        !.pc = "returned",
                                        !.result = IF ok THEN "ch" ELSE "none"],
                                 TRUE, IF ok THEN "ch" ELSE "none")
    /\ UNCHANGED attempts
    /\ OnlyBroker

(***************************************************************************)
(* Specifications.                                                         *)
(***************************************************************************)
\* The rate limiter on its own.
RlNext ==
    \/ \E id \in Ids, n \in Bursts : RlCall(id, n)
    \/ RlSweep
    \/ \E d \in Deltas : Advance(d)

SpecRL == BootInit /\ [][RlNext]_vars

\* The serving process: connections, messages, ingestion and broadcast.
\* The steps of clients, timers, queue and clock taken while serving.
Budget == MessagesHandled + ticks + deliveries + advances < MaxSockSteps

SockNext ==
    \/ \E c \in Ids, mock \in MockDraws : Connect(c, mock)
    \/ \E ok \in BOOLEAN, mock \in MockDraws, joins \in BOOLEAN :
          RedisAnswersMget(ok, mock, joins)
    \/ \E c \in Ids : Disconnect(c)
    \/ \E ok \in BOOLEAN : RedisAnswersMset(ok)
    \/ RlSweep
    \/ \E c \in Ids, symbols \in Payloads : Budget /\ Subscribe(c, symbols)
    \/ \E c \in Ids, symbols \in Payloads : Budget /\ SubscribeUnheard(c, symbols)
    \/ \E c \in Ids, symbols \in Payloads : Budget /\ Unsubscribe(c, symbols)
    \/ \E c \in Ids, timestamp \in Timestamps, n \in Bursts : Budget /\ Ping(c, timestamp, n)
    \/ \E draw \in RandomDraws, mock \in MockDraws : Budget /\ GeneratorTick(draw, mock)
    \/ \E msg \in SockMessages, mock \in MockDraws : Budget /\ Deliver(msg, mock)
    \/ Budget /\ BroadcastTick
    \/ \E d \in SockDeltas : Budget /\ Advance(d)

SpecSock == ServingInit /\ [][SockNext]_vars

\* One connection and the price feed.
FeedIds == {"c1"}

\* What the connection subscribes to.
FeedPayloads == {[array |-> TRUE, value |-> <<"SOL", "DOGE">>]}

\* The steps of the client, the timers, the queue and the clock taken.
FeedBudget == MessagesHandled + ticks + deliveries + advances < MaxFeedSteps

FeedNext ==
    \/ \E c \in FeedIds, mock \in MockDraws : Connect(c, mock)
    \/ \E ok \in BOOLEAN, mock \in MockDraws, joins \in BOOLEAN :
          RedisAnswersMget(ok, mock, joins)
    \/ \E c \in FeedIds : Disconnect(c)
    \/ \E ok \in BOOLEAN : RedisAnswersMset(ok)
    \/ \E c \in FeedIds, symbols \in FeedPayloads : FeedBudget /\ Subscribe(c, symbols)
    \/ \E draw \in RandomDraws, mock \in MockDraws : FeedBudget /\ GeneratorTick(draw, mock)
    \/ \E msg \in SockMessages, mock \in MockDraws : FeedBudget /\ Deliver(msg, mock)
    \/ FeedBudget /\ BroadcastTick
    \/ \E d \in SockDeltas : FeedBudget /\ Advance(d)

SpecFeed == ServingInit /\ [][FeedNext]_vars

\* Startup and ingestion.
StartNext ==
    \/ \E ok \in BOOLEAN : RedisConnectSettles(ok)
    \/ RedisClientError
    \/ StartPriceUpdates
    \/ \E ok \in BOOLEAN : AmqpConnectSettles(ok)
    \/ \E ok \in BOOLEAN : CreateChannelSettles(ok)
    \/ \E ok \in BOOLEAN : AssertQueueSettles(ok)
    \/ BrokerLost
    \/ \E draw \in RandomDraws, mock \in MockDraws : GeneratorTick(draw, mock)
    \/ \E msg \in Messages, mock \in MockDraws : Deliver(msg, mock)
    \/ BroadcastTick
    \/ \E ok \in BOOLEAN : RedisAnswersMset(ok)
    \/ \E d \in Deltas : Advance(d)

SpecStart == BootInit /\ [][StartNext]_vars

\* The steps of the clock between the reconnections of the Redis client.
RetryDeltas == {50, 100, 150}

\* The connections to Redis and to the broker, attempt by attempt.
RetryNext ==
    \/ StartPriceUpdates
    \/ \E ok \in BOOLEAN : RedisAttemptSettles(ok)
    \/ \E ok \in BOOLEAN : AmqpConnectSettles(ok)
    \/ \E ok \in BOOLEAN : CreateChannelSettles(ok)
    \/ \E ok \in BOOLEAN : AssertQueueSettles(ok)
    \/ BrokerLost
    \/ \E d \in RetryDeltas : Advance(d)

SpecRetry == BootInit /\ [][RetryNext]_vars

\* The steps of the clock around the timer of a waiting call.
BrokerDeltas == {100}

\* The calls of rabbitMQ.connect(), overlapping or not.
BrokerNext ==
    \/ \E k \in BrokerCallers : ConnectCall(k)
    \/ \E k \in BrokerCallers : ConnectWakes(k)
    \/ \E k \in BrokerCallers, ok \in BOOLEAN : ConnectAmqpSettles(k, ok)
    \/ \E k \in BrokerCallers, ok \in BOOLEAN : ConnectChannelSettles(k, ok)
    \/ BrokerLost
    \/ \E d \in BrokerDeltas : Advance(d)

SpecBroker == BootInit /\ [][BrokerNext]_vars

\* The steps of the clock around one hour: 3599 s, then 3600 s, then 3601 s.
HourDeltas == {1000, 3599000}

\* Ingestion over an hour.
HourNext ==
    \/ \E draw \in RandomDraws, mock \in MockDraws : GeneratorTick(draw, mock)
    \/ \E msg \in SockMessages, mock \in MockDraws : Deliver(msg, mock)
    \/ BroadcastTick
    \/ \E ok \in BOOLEAN : RedisAnswersMset(ok)
    \/ \E d \in HourDeltas : Advance(d)

SpecHour == ServingInit /\ [][HourNext]_vars

(***************************************************************************)
(* redis.ts: the helpers of cache one by one, and getPrice of               *)
(* dataService.ts, which reads through them.                                *)
(***************************************************************************)
\* What a helper returns when it does not call Redis and when its call fails.
Failure(cmd, keys) ==
    IF cmd = "get" THEN Null
    ELSE IF cmd = "mget" THEN [i \in 1..Len(keys) |-> Null]
    ELSE FALSE

\* A text JSON.parse throws on.
NotJson == [text |-> "garbage"]
Parses(text) == "json" \in DOMAIN text

\* How Redis can answer a command of the client. A command is rejected when
\* the connection is lost. pipeline.exec() collects the error of each of its
\* commands in the array it resolves with ("errors"), and is rejected only
\* when the pipeline itself cannot be run.
ReplyKinds(cmd) ==
    IF cmd = "mset" THEN {"ok", "errors", "rejected"}
    ELSE IF cmd \in {"get", "mget"} THEN {"ok", "garbage", "rejected"}
    ELSE {"ok", "rejected"}

\* The answer of Redis at time t: for get and mget the stored texts.
RedisReply(store, cmd, keys, kind, t) ==
    IF kind \in {"rejected", "errors"} THEN [kind |-> kind, value |-> Null]
    ELSE IF cmd = "get"
    THEN [kind |-> kind,
          value |-> IF kind = "garbage" THEN NotJson ELSE RedisGet(store, keys[1], t)]
    ELSE IF cmd = "mget"
    THEN [kind |-> kind,
          value |-> [i \in 1..Len(keys) |->
                        IF kind = "garbage" /\ i = 1 THEN NotJson
                        ELSE RedisGet(store, keys[i], t)]]
    ELSE [kind |-> kind, value |-> Null]

\* The body of a try block: threw, or the value it returned.
Threw == [threw |-> TRUE, value |-> Null]
Returned(value) == [threw |-> FALSE, value |-> value]
Catch(body, fallback) == IF body.threw THEN fallback ELSE body.value

\* The value a helper returns once Redis answered its call with reply.
CacheReturn(cmd, keys, reply) ==
    IF cmd = "get"
    THEN Catch(IF reply.kind = "rejected" THEN Threw
               ELSE IF reply.value = Null THEN Returned(Null)
               ELSE IF Parses(reply.value) THEN Returned(JsonParse(reply.value))
               ELSE Threw,
               Null)
    ELSE IF cmd = "mget"
    THEN Catch(IF reply.kind = "rejected" THEN Threw
               ELSE IF \E i \in 1..Len(keys) :
                          reply.value[i] # Null /\ ~Parses(reply.value[i])
               THEN Threw
               ELSE Returned([i \in 1..Len(keys) |->
                                IF reply.value[i] = Null THEN Null
                                ELSE JsonParse(reply.value[i])]),
               [i \in 1..Len(keys) |-> Null])
    ELSE Catch(IF reply.kind = "rejected" THEN Threw ELSE Returned(TRUE), FALSE)

\* The server after the command of a call ran at time t.
RedisAfterCall(store, call, kind, t) ==
    IF kind # "ok" THEN store
    ELSE IF call.cmd \in {"set", "mset"}
    THEN [k \in (DOMAIN store) \cup (DOMAIN call.pairs) |->
            IF k \in DOMAIN call.pairs
            THEN [value |-> JsonStringify(call.pairs[k]),
                  expireAt |-> t + call.ttlSeconds * 1000]
            ELSE store[k]]
    ELSE IF call.cmd = "del"
    THEN [k \in (DOMAIN store) \ {call.keys[1]} |-> store[k]]
    ELSE store

\* getPrice(symbol) once cache.get has returned cached.
getPriceAfter(cached, cache, prices, history, symbol, t, mock) ==
    IF cached # Null THEN cached
    ELSE LET k == PriceKey(symbol)
         IN  IF k \in DOMAIN cache /\ MemoryFresh(t, cache[k].timestamp)
             THEN cache[k].data
             ELSE LET allPrices == getCurrentPrices(prices, history, t, mock)
                      found == {i \in 1..Len(allPrices) : allPrices[i].symbol = symbol}
                  IN  IF found = {} THEN Null
                      ELSE allPrices[CHOOSE i \in found : \A j \in found : i <= j]

\* The calls made to the helpers.
CacheKeys == {"foo"}
CacheTtls == {2, 10}
CacheValue == [val |-> 1]
CacheCalls ==
    {[cmd |-> c, keys |-> <<k>>, pairs |-> << >>, ttlSeconds |-> 0] :
        c \in {"get", "del"}, k \in CacheKeys}
    \cup {[cmd |-> "set", keys |-> <<k>>, pairs |-> (k :> CacheValue), ttlSeconds |-> ttl] :
            k \in CacheKeys, ttl \in CacheTtls}
    \cup {[cmd |-> "mget", keys |-> <<"foo", "bar">>, pairs |-> << >>, ttlSeconds |-> 0],
          [cmd |-> "mset", keys |-> <<"foo", "bar">>,
           pairs |-> ("foo" :> CacheValue) @@ ("bar" :> CacheValue), ttlSeconds |-> 2]}
PriceSymbols == {"SOL", "DOGE"}
NoReply == [kind |-> "none", value |-> Null]

CacheFrame ==
    /\ Sent(<<>>, rooms, FALSE)
    /\ NoCalls
    /\ UNCHANGED <<now, advances, timerVars, rateLimiters, rlSteps, storeVars,
                   redisAvailable, redisConn, startVars,
                   sockets, rooms, connectionCount, handled, initialSent>>

\* A helper of cache is called: it returns at once, or sends its command.
CacheCall(call) ==
    /\ IF ShortCircuits(redisAvailable)
       THEN /\ lastOp' = Op("cache", NoId, [call |-> call, reply |-> NoReply],
                            <<Failure(call.cmd, call.keys)>>)
            /\ UNCHANGED redisQueue
       ELSE /\ Len(redisQueue) < MaxPending
            /\ redisQueue' = Append(redisQueue, [op |-> "cache", sock |-> NoId, data |-> call])
            /\ lastOp' = Op("cache.call", NoId, [call |-> call, reply |-> NoReply], <<>>)
    /\ UNCHANGED redisStore
    /\ CacheFrame

\* Redis answers the command of a helper, which returns.
RedisAnswersCache(kind) ==
    /\ redisQueue # <<>>
    /\ redisQueue[Answered(redisQueue)].op = "cache"
    /\ LET call == redisQueue[Answered(redisQueue)].data
           reply == RedisReply(redisStore, call.cmd, call.keys, kind, now)
       IN  /\ kind \in ReplyKinds(call.cmd)
           /\ redisStore' = RedisAfterCall(redisStore, call, kind, now)
           /\ lastOp' = Op("cache", NoId, [call |-> call, reply |-> reply],
                           <<CacheReturn(call.cmd, call.keys, reply)>>)
    /\ redisQueue' = Without(redisQueue, Answered(redisQueue))
    /\ CacheFrame

\* getPrice(symbol) is called: up to the await of cache.get, or to its end.
GetPrice(symbol, mock) ==
    /\ IF ShortCircuits(redisAvailable)
       THEN /\ lastOp' = Op("getPrice", NoId,
                            [symbol |-> symbol, mock |-> mock, cached |-> Null],
                            <<getPriceAfter(Null, memoryCache, currentPrices, priceHistory,
                                            symbol, now, mock)>>)
            /\ UNCHANGED redisQueue
       ELSE /\ Len(redisQueue) < MaxPending
            /\ redisQueue' = Append(redisQueue,
                                    [op |-> "getPrice", sock |-> NoId, data |-> symbol])
            /\ lastOp' = Op("getPrice.call", NoId, [symbol |-> symbol, mock |-> mock], <<>>)
    /\ UNCHANGED redisStore
    /\ CacheFrame

\* Redis answers the cache.get of getPrice, which runs to its end.
RedisAnswersGetPrice(kind, mock) ==
    /\ redisQueue # <<>>
    /\ redisQueue[Answered(redisQueue)].op = "getPrice"
    /\ kind \in ReplyKinds("get")
    /\ LET symbol == redisQueue[Answered(redisQueue)].data
           keys == <<PriceKey(symbol)>>
           cached == CacheReturn("get", keys, RedisReply(redisStore, "get", keys, kind, now))
       IN  lastOp' = Op("getPrice", NoId,
                        [symbol |-> symbol, mock |-> mock, cached |-> cached],
                        <<getPriceAfter(cached, memoryCache, currentPrices, priceHistory,
                                        symbol, now, mock)>>)
    /\ redisQueue' = Without(redisQueue, Answered(redisQueue))
    /\ UNCHANGED redisStore
    /\ CacheFrame

\* getAllPrices() is called: up to the await of cache.mget, or to its end.
GetAllPrices(mock) ==
    /\ IF ShortCircuits(redisAvailable)
       THEN /\ LET cached == CacheMget(FALSE, redisStore, AllKeys, now, TRUE)
               IN  lastOp' = Op("getAllPrices", NoId, [mock |-> mock, cached |-> cached],
                               <<getAllPrices(cached, memoryCache, currentPrices,
                                              priceHistory, now, mock)>>)
            /\ UNCHANGED redisQueue
       ELSE /\ Len(redisQueue) < MaxPending
            /\ redisQueue' = Append(redisQueue,
                                    [op |-> "getAllPrices", sock |-> NoId, data |-> <<>>])
            /\ lastOp' = Op("getAllPrices.call", NoId, [mock |-> mock], <<>>)
    /\ UNCHANGED redisStore
    /\ CacheFrame

\* Redis answers the cache.mget of getAllPrices, which runs to its end.
RedisAnswersGetAllPrices(ok, mock) ==
    /\ redisQueue # <<>>
    /\ redisQueue[Answered(redisQueue)].op = "getAllPrices"
    /\ LET cached == CacheMget(TRUE, redisStore, AllKeys, now, ok)
       IN  lastOp' = Op("getAllPrices", NoId, [mock |-> mock, cached |-> cached],
                        <<getAllPrices(cached, memoryCache, currentPrices,
                                       priceHistory, now, mock)>>)
    /\ redisQueue' = Without(redisQueue, Answered(redisQueue))
    /\ UNCHANGED redisStore
    /\ CacheFrame

\* The steps of the clock: half the 3 s of the memory cache.
CacheDeltas == {1500}

\* The helpers of cache, called while time passes.
CacheNext ==
    \/ \E call \in CacheCalls : CacheCall(call)
    \/ \E kind \in {"ok", "garbage", "errors", "rejected"} : RedisAnswersCache(kind)
    \/ \E d \in CacheDeltas : Advance(d)

SpecCache == ServingInit /\ [][CacheNext]_vars

\* The steps of the clock around the 3 s of the memory cache.
PriceDeltas == {1500, 2000}

\* The steps of ingestion and of the clock beside getPrice.
PriceBudget == ticks + deliveries + advances < MaxPriceSteps

\* getPrice beside the ingestion that writes the two caches.
PriceNext ==
    \/ \E symbol \in PriceSymbols, mock \in MockDraws : GetPrice(symbol, mock)
    \/ \E kind \in {"ok", "garbage", "rejected"}, mock \in MockDraws :
          RedisAnswersGetPrice(kind, mock)
    \/ \E mock \in MockDraws : GetAllPrices(mock)
    \/ \E ok \in BOOLEAN, mock \in MockDraws : RedisAnswersGetAllPrices(ok, mock)
    \/ \E draw \in RandomDraws, mock \in MockDraws : PriceBudget /\ GeneratorTick(draw, mock)
    \/ \E msg \in SockMessages, mock \in MockDraws : PriceBudget /\ Deliver(msg, mock)
    \/ PriceBudget /\ BroadcastTick
    \/ \E ok \in BOOLEAN : RedisAnswersMset(ok)
    \/ \E d \in PriceDeltas : PriceBudget /\ Advance(d)

SpecPrice == ServingInit /\ [][PriceNext]_vars

(***************************************************************************)
(* Claims about the rate limiter, checked under SpecRL.                    *)
(***************************************************************************)

\* C1: the k-th isRateLimited call of an id inside one window (the window
\* opened by the id's first call included) returns false for k = 1..100 and
\* true for k = 101 and every later k.
C1_FirstHundredPass ==
    rlCaller # NoId =>
        \A i \in 1..Len(rlResults) :
            rlResults[i] =
                (winCalls[rlCaller] - Len(rlResults) + i > MAX_MESSAGES_PER_SECOND)

\* The 101st call of a window has just been made and was limited, after 100
\* calls that passed.
C1_Witness ==
    /\ rlCaller # NoId
    /\ winCalls[rlCaller] = MAX_MESSAGES_PER_SECOND + 1
    /\ winPass[rlCaller] = MAX_MESSAGES_PER_SECOND
    /\ rlResults[Len(rlResults)] = TRUE

\* C2: the first call made for an id with state after its window has elapsed
\* (now > resetAt), whatever the count, returns false, sets count to 1 and
\* resetAt to now + 1000 (later calls of the same instant count on from 1).
C2_ResetAfterWindow ==
    (rlCaller # NoId /\ rlElapsed) =>
        /\ rlResults[1] = FALSE
        /\ rateLimiters[rlCaller].resetAt = now + 1000
        /\ rateLimiters[rlCaller].count = Len(rlResults)

\* One call has just been made after the window elapsed, for an id whose
\* count was above the threshold.
C2_Witness ==
    /\ rlCaller # NoId
    /\ rlElapsed
    /\ rlPrev.count > MAX_MESSAGES_PER_SECOND
    /\ Len(rlResults) = 1
    /\ rateLimiters[rlCaller].count = 1

Updates == {i \in 1..Len(emitted) : emitted[i].ev = "price-update"}
Bulks == {i \in 1..Len(emitted) : emitted[i].ev = "price-update-bulk"}
Errors == {i \in 1..Len(emitted) : emitted[i].ev = "error"}
OnlyBTC(c) == rooms[c] = {AllRoom, RoomOf("BTC")}

\* C4: a single-symbol update for symbol s reaches only the connections
\* that are members of group s when it is sent; a connection whose only
\* subscription is BTC receives from a broadcast the BTC update and the bulk
\* update and no single-symbol update for another symbol.
C4_SubscriptionIsolation ==
    /\ \A i \in Updates : \A c \in Recipients(emitted[i], rooms) :
           RoomOf(emitted[i].data.symbol) \in rooms[c]
    /\ \A c \in Ids : (Open(c) /\ OnlyBTC(c)) =>
           /\ \A i \in Updates \cap Received(c) : emitted[i].data.symbol = "BTC"
           /\ lastOp.op = "broadcast" =>
                 /\ Bulks \cap Received(c) # {}
                 /\ \A j \in 1..Len(lastOp.arg) : lastOp.arg[j].symbol = "BTC" =>
                       \E i \in Updates \cap Received(c) : emitted[i].data = lastOp.arg[j]

\* A broadcast with a BTC and a SOL fact has reached a connection subscribed
\* to BTC only: it got the BTC update and not the SOL update.
C4_Witness ==
    \E c \in Ids :
        /\ Open(c) /\ OnlyBTC(c)
        /\ lastOp.op = "broadcast"
        /\ \E i \in Updates \cap Received(c) : emitted[i].data.symbol = "BTC"
        /\ \E i \in Updates \ Received(c) : emitted[i].data.symbol = "SOL"

Listed(list) == {list[i] : i \in 1..Len(list)}

\* C5: a subscribe that is not rate-limited adds the connection to the
\* group of each listed symbol that is in SYMBOLS and to no other group,
\* changes nothing else, and sends no error event.
C5_SubscribeKnownOnly ==
    (lastOp.op = "subscribe" /\ ~lastOp.results[1]) =>
        /\ rooms = [lastOp.roomsBefore EXCEPT ![lastOp.sock] =
                       @ \cup {RoomOf(sym) : sym \in Listed(lastOp.arg) \cap KnownSymbols}]
        /\ Errors = {}

\* A subscribe listing SOL and the unknown DOGE has been handled: the
\* connection joined SOL's group and no group of DOGE.
C5_Witness ==
    /\ lastOp.op = "subscribe"
    /\ ~lastOp.results[1]
    /\ {"SOL", "DOGE"} \subseteq Listed(lastOp.arg)
    /\ RoomOf("SOL") \in rooms[lastOp.sock] \ lastOp.roomsBefore[lastOp.sock]
    /\ RoomOf("DOGE") \notin rooms[lastOp.sock]

NotSubscribed(c, list, rms) == \A sym \in Listed(list) : RoomOf(sym) \notin rms[c]

\* C6: an unsubscribe listing only symbols whose groups the connection is
\* not in leaves every membership as it was and sends no error event.
C6_UnsubscribeAbsentIsNoOp ==
    (lastOp.op = "unsubscribe" /\ NotSubscribed(lastOp.sock, lastOp.arg, lastOp.roomsBefore)) =>
        /\ rooms = lastOp.roomsBefore
        /\ Errors = {}

\* A connection in the all group and in SOL's group has unsubscribed from
\* BTC, and was answered.
C6_Witness ==
    /\ lastOp.op = "unsubscribe"
    /\ ~lastOp.results[1]
    /\ lastOp.arg = <<"BTC">>
    /\ lastOp.roomsBefore[lastOp.sock] = {AllRoom, RoomOf("SOL")}
    /\ \E i \in 1..Len(emitted) : emitted[i].ev = "unsubscribed"

Destroyed(c) == sockets[c] \in {"gone", "closed"}

C8_InitialSnapshotFirst ==
    \A c \in Ids :
        /\ initialSent[c] <= 1
        /\ sockets[c] \in {"idle", "awaiting"} =>
              (initialSent[c] = 0 /\ handled[c] = 0 /\ firstRecv[c] = NoEvent)
        /\ Open(c) =>
              /\ initialSent[c] = 1
              /\ firstRecv[c] = [ev |-> "price-update-bulk", initial |-> TRUE,
                                 symbols |-> SYMBOLS]
        /\ (Open(c) /\ lastOp.op \in {"connection", "connected"} /\ lastOp.sock = c) =>
              /\ AllRoom \in rooms[c]
              /\ Len(emitted) = 1
              /\ emitted[1].to = c
              /\ emitted[1].ev = "price-update-bulk"
              /\ Len(emitted[1].data) = Len(SYMBOLS)

\* A connection handler that awaited Redis while a tick was broadcast has
\* sent its snapshot.
C8_Witness ==
    \E c \in Ids :
        /\ Open(c)
        /\ lastOp.op = "connected"
        /\ lastOp.sock = c
        /\ ticks > 0
        /\ Len(emitted) = 1

\* C9: a broadcast of the facts F emits exactly one price-update per fact,
\* to the group of the fact's symbol, and exactly one price-update-bulk,
\* with all of F, to the all group; from a generator's broadcast a
\* connection in the all group and in SOL's group receives exactly one
\* price-update for SOL and one bulk of 8 entries.
C9_OneUpdatePerFactOneBulk ==
    lastOp.op = "broadcast" =>
        LET F == lastOp.arg
        IN  /\ Cardinality(Updates) = Len(F)
            /\ \A j \in 1..Len(F) :
                   Cardinality({i \in Updates : /\ emitted[i].data = F[j]
                                                /\ emitted[i].to = RoomOf(F[j].symbol)}) = 1
            /\ Cardinality(Bulks) = 1
            /\ \A i \in Bulks : emitted[i].to = AllRoom /\ emitted[i].data = F
            /\ generatorOn =>
                  \A c \in Ids : (Open(c) /\ {AllRoom, RoomOf("SOL")} \subseteq rooms[c]) =>
                      /\ Cardinality({i \in Updates \cap Received(c) :
                                         emitted[i].data.symbol = "SOL"}) = 1
                      /\ Cardinality(Bulks \cap Received(c)) = 1
                      /\ \A i \in Bulks \cap Received(c) : Len(emitted[i].data) = 8

\* The generator's broadcast has reached a connection subscribed to SOL.
C9_Witness ==
    /\ lastOp.op = "broadcast"
    /\ generatorOn
    /\ \E c \in Ids :
           /\ Open(c)
           /\ rooms[c] = {AllRoom, RoomOf("SOL")}
           /\ \E i \in Updates \cap Received(c) : emitted[i].data.symbol = "SOL"

(***************************************************************************)
(* Claims about startup, checked under SpecStart.                          *)
(***************************************************************************)
ConsumerActive == consumerOn /\ broadcastLoopOn

\* C10: once startup has settled exactly one ingestion strategy is active,
\* the consumer if and only if the probe returned a channel, also when
\* declaring the queue fails after the probe succeeded.
C10_ExactlyOneStrategy ==
    startup \in {"done", "rejected"} =>
        /\ generatorOn # ConsumerActive
        /\ ConsumerActive <=> (probe = "channel")

\* C11: the ingestion strategy is chosen once: after the consumer was
\* chosen the generator is never started, also after the broker connection
\* is lost; after the generator was chosen the queue is never consumed; and
\* the choice itself never changes.
C11_StrategyChosenOnce ==
    [][/\ probe = "channel" => (~generatorOn /\ probe' = "channel" /\ ~generatorOn')
       /\ probe = "absent" =>
             /\ ~consumerOn /\ deliveries = 0
             /\ probe' = "absent" /\ ~consumerOn' /\ deliveries' = 0]_vars

\* The consumer was chosen, the broker connection was lost, and the
\* broadcast interval has fired since.
C11_Witness ==
    /\ probe = "channel"
    /\ ConsumerActive
    /\ rabbit.channel = "none"
    /\ lastOp.op = "tick"
    /\ ~generatorOn

Failed(msg) ==
    \/ msg.text = "garbage"
    \/ /\ msg.data.symbol # ""
       /\ msg.data.price # 0
       /\ msg.data.symbol \notin KnownSymbols

\* C12: a delivered message is answered exactly once: with ack when it was
\* parsed and the callback did not throw, with nack without requeue when
\* parsing or the callback failed; nothing is ever nacked with requeue.
C12_OneAckOrNack ==
    /\ \A i \in 1..Len(lastAck) : ~lastAck[i].requeue
    /\ lastOp.op = "deliver" =>
          /\ Len(lastAck) = 1
          /\ lastAck[1].kind = (IF Failed(lastOp.arg[1]) THEN "nack" ELSE "ack")

\* A message with an unknown symbol made the callback throw and was
\* nacked.
C12_Witness ==
    /\ lastOp.op = "deliver"
    /\ lastOp.arg[1].text = "json"
    /\ Failed(lastOp.arg[1])
    /\ lastAck = <<Nack(FALSE)>>

Facts(priceData) ==
    {[symbol |-> priceData[i].symbol, price |-> priceData[i].price,
      timestamp |-> priceData[i].timestamp] : i \in 1..Len(priceData)}

Latest(map) ==
    {[symbol |-> k, price |-> map[k].price, timestamp |-> map[k].timestamp] : k \in DOMAIN map}

\* The latest step was the broadcast interval of the consumer.
JustDrained ==
    /\ broadcastLoopOn
    /\ lastOp.op = "tick" \/ (lastOp.op = "broadcast" /\ ~redisAvailable)

\* C13: the buffer holds at most one fact per symbol, the one staged last;
\* the broadcast interval takes every staged fact and leaves the buffer
\* empty in one step, also while an earlier broadcast is still in flight,
\* so the fact staged last for a symbol before a tick is the one that tick
\* hands to the broadcast, and no tick hands it over again.
C13_BufferLatestPerSymbol ==
    /\ \A i, j \in 1..Len(updateBuffer) :
           updateBuffer[i].symbol = updateBuffer[j].symbol => i = j
    /\ Facts(updateBuffer) = Latest(staged)
    /\ JustDrained =>
          /\ updateBuffer = <<>>
          /\ Facts(lastOp.arg) = Latest(drained)
          /\ Len(lastOp.arg) = Cardinality(DOMAIN drained)

\* The interval has taken a fact that was staged while the broadcast of
\* the interval before was still waiting for its cache write.
C13_Witness ==
    /\ JustDrained
    /\ Len(lastOp.arg) > 0
    /\ Len(redisQueue) = 2
    /\ ticks = 2

Rands == 0..99

\* C15: with the generator, every price is strictly positive after every
\* number of ticks, every fact a tick hands to the broadcast has a positive
\* price, and whatever Math.random() draws next the step gives a positive
\* price again (no step has to be rejected).
C15_GeneratorPricesPositive ==
    generatorOn =>
        /\ \A k \in KnownSymbols :
              /\ currentPrices[k] > 0
              /\ \A rand \in Rands :
                    generatePriceChange(currentPrices[k], Volatility(k), rand) > 0
        /\ lastOp.op \in {"tick", "broadcast"} =>
              \A i \in 1..Len(lastOp.arg) : lastOp.arg[i].price > 0

\* The generator has ticked twice and a price has gone down.
C15_Witness ==
    /\ generatorOn
    /\ ticks = 2
    /\ lastOp.op \in {"tick", "broadcast"}
    /\ currentPrices["BTC"] < initialPrices["BTC"]

\* C16: in every reachable state the price of every known symbol in the
\* store is strictly positive, and so is the price of every fact staged,
\* cached or handed to a broadcast, whatever the queue delivers.
C16_PricesPositive ==
    /\ \A k \in KnownSymbols : currentPrices[k] > 0
    /\ \A i \in 1..Len(updateBuffer) : updateBuffer[i].price > 0
    /\ \A key \in DOMAIN memoryCache : memoryCache[key].data.price > 0
    /\ lastOp.op \in {"tick", "broadcast"} =>
          \A i \in 1..Len(lastOp.arg) : lastOp.arg[i].price > 0

(***************************************************************************)
(* Claims about the 24h reference, checked under SpecHour.                 *)
(***************************************************************************)
\* The step applies a fact for symbol k: a generator tick (every symbol) or
\* the delivery of a fact for k.
Applies(k) ==
    \/ generatorOn /\ ticks' = ticks + 1
    \/ /\ deliveries' = deliveries + 1
       /\ Stageable(lastOp'.arg[1])
       /\ lastOp'.arg[1].data.symbol = k

\* C17: when a fact for a symbol is applied, the symbol's reference price
\* becomes the applied price and lastUpdate becomes now if and only if more
\* than 3600000 ms have passed since lastUpdate; otherwise, and in every
\* other step, both stay as they are.
C17_RebaseAfterOneHour ==
    [][\A k \in KnownSymbols :
          IF Applies(k) /\ now - priceHistory[k].lastUpdate > 3600000
          THEN priceHistory'[k] = [price24hAgo |-> currentPrices'[k], lastUpdate |-> now]
          ELSE priceHistory'[k] = priceHistory[k]]_vars

\* Two facts have been applied, and the one applied 3601 s after the last
\* rebase of SOL has rebased it.
C17_Witness ==
    /\ now = 3601000
    /\ priceHistory["SOL"].lastUpdate = 3601000
    /\ priceHistory["SOL"].price24hAgo = currentPrices["SOL"]
    /\ ticks + deliveries = 2

\* C18: no cache operation propagates an error to its caller. When the call
\* to Redis fails, get returns null, mget returns null for every key, and
\* set, mset and del return false; when it succeeds, get returns the parsed
\* stored value and set returns true.
C18_NoErrorPropagates ==
    (lastOp.op = "cache" /\ lastOp.arg.reply.kind # "none") =>
        LET call == lastOp.arg.call
            reply == lastOp.arg.reply
            r == lastOp.results[1]
            failed == reply.kind \in {"rejected", "errors"}
        IN  /\ call.cmd = "get" =>
                /\ failed => r = Null
                /\ (reply.kind = "ok" /\ reply.value # Null) => r = reply.value.json
            /\ call.cmd = "mget" =>
                (failed => /\ Len(r) = Len(call.keys)
                           /\ \A i \in 1..Len(r) : r[i] = Null)
            /\ call.cmd \in {"set", "mset", "del"} => (failed => r = FALSE)
            /\ call.cmd = "set" => (reply.kind = "ok" => r = TRUE)

\* C19: while the flag says Redis is unavailable, every cache operation
\* returns in the step it is called in and sends no command to Redis: get
\* returns null, mget as many nulls as it was given keys, and set, mset and
\* del return false.
C19_UnavailableShortCircuits ==
    ~redisAvailable =>
        /\ redisQueue = <<>>
        /\ lastOp.op # "cache.call"
        /\ lastOp.op = "cache" =>
              LET call == lastOp.arg.call
                  r == lastOp.results[1]
              IN  /\ lastOp.arg.reply.kind = "none"
                  /\ call.cmd = "get" => r = Null
                  /\ call.cmd = "mget" =>
                        /\ Len(r) = Len(call.keys)
                        /\ \A i \in 1..Len(r) : r[i] = Null
                  /\ call.cmd \in {"set", "mset", "del"} => r = FALSE

\* mget was called with two keys while Redis was unavailable and returned at
\* once.
C19_Witness ==
    /\ ~redisAvailable
    /\ lastOp.op = "cache"
    /\ lastOp.arg.call.cmd = "mget"
    /\ Len(lastOp.arg.call.keys) = 2
    /\ Len(lastOp.results[1]) = 2

\* The memory cache's entry for the symbol of the latest getPrice, and the
\* age of that entry.
Asked == lastOp.arg.symbol
Entry == memoryCache[PriceKey(Asked)]
FallbackRead ==
    /\ lastOp.op = "getPrice"
    /\ ~redisAvailable
    /\ PriceKey(Asked) \in DOMAIN memoryCache

\* C20 as stated: while Redis is unavailable, a read of a key written
\* earlier returns the written value when it happens within the TTL of the
\* write, and returns absent when it happens after the TTL.
C20_FallbackAbsentAfterTtl ==
    FallbackRead =>
        /\ now - Entry.timestamp < 3000 => lastOp.results[1] = Entry.data
        /\ now - Entry.timestamp > 3000 => lastOp.results[1] = Null

\* C20: while Redis is unavailable, getPrice for a symbol that
\* broadcastUpdates stored earlier returns the stored fact when less than
\* 3000 ms have passed since it was stored; from 3000 ms on it returns the
\* fact computed from the price store at the time of the read, never absent.
C20_FallbackThenFresh ==
    FallbackRead =>
        IF now - Entry.timestamp < 3000
        THEN lastOp.results[1] = Entry.data
        ELSE /\ lastOp.results[1] # Null
             /\ lastOp.results[1] =
                   getPriceData(currentPrices, priceHistory, Asked, now, lastOp.arg.mock)
             /\ lastOp.results[1].timestamp = now

\* getPrice read SOL 3500 ms after broadcastUpdates stored it, with Redis
\* unavailable, and returned a fact.
C20_Witness ==
    /\ FallbackRead
    /\ Asked = "SOL"
    /\ now - Entry.timestamp = 3500
    /\ lastOp.results[1].symbol = "SOL"

\* C21: when the connect of Redis succeeds, the Socket.io server runs on the
\* Redis adapter, which carries a broadcast of one instance to the clients of
\* the others.
C21_AdapterAttachedWhenReachable ==
    (redisConn = "ready" /\ adapter # "none") => adapter = "redis"

(***************************************************************************)
(* Claims about rate-limited messages, checked under SpecSock.             *)
(***************************************************************************)
\* The latest action handled a message of the given kind that the rate
\* limiter refused.
Refused(op) == lastOp.op = op /\ lastOp.results[1]

\* C22: a rate-limited subscribe and a rate-limited unsubscribe are each
\* answered with one error event to the sender and nothing else, and change
\* no room membership.
C22_RateLimitedAnsweredWithError ==
    (Refused("subscribe") \/ Refused("unsubscribe")) =>
        /\ Len(emitted) = 1
        /\ emitted[1].ev = "error"
        /\ emitted[1].to = lastOp.sock
        /\ rooms = lastOp.roomsBefore

\* C23: every ping that passes the rate limit is answered with exactly one
\* pong to its sender that carries the timestamp of the ping, and a
\* rate-limited ping is answered with nothing.
C23_PongOrNothing ==
    lastOp.op = "ping" =>
        /\ Len(emitted) = Cardinality({i \in 1..Len(lastOp.results) : ~lastOp.results[i]})
        /\ \A i \in 1..Len(emitted) :
              /\ emitted[i].ev = "pong"
              /\ emitted[i].to = lastOp.sock
              /\ emitted[i].data = lastOp.arg[1]

\* A single ping was refused by the rate limiter, after pings that passed.
C23_Witness ==
    /\ lastOp.op = "ping"
    /\ lastOp.results = <<TRUE>>
    /\ emitted = <<>>
    /\ winPass[lastOp.sock] > 0

(***************************************************************************)
(* Claims about the liveness flag of Redis, checked under SpecStart.       *)
(***************************************************************************)
\* C24: redisAvailable follows the state of the client: it is true once the
\* initial connect has succeeded, false when it has failed, and false again
\* once the client has emitted an error after a successful connect, so that
\* no later operation is sent to Redis.
C24_FlagFollowsCache ==
    /\ redisConn = "ready" => redisAvailable
    /\ redisConn \in {"connecting", "failed", "lost"} => ~redisAvailable

(***************************************************************************)
(* Claims about the connection attempts, checked under SpecRetry.          *)
(***************************************************************************)
\* The delays before the reconnections to Redis are min(n * 50, 2000) for
\* n = 1, 2, ..., at most three of them, and the client gives up only after
\* the third.
RedisRetriesBounded ==
    /\ Len(attempts.redisDelays) <= 3
    /\ \A n \in 1..Len(attempts.redisDelays) :
          attempts.redisDelays[n] = (IF n * 50 < 2000 THEN n * 50 ELSE 2000)
    /\ redisConn = "reconnecting" => attempts.redisRetryAt >= 0
    /\ redisConn = "failed" =>
          /\ Len(attempts.redisDelays) = 3
          /\ attempts.redisRetryAt = -1
          /\ ~redisAvailable

\* The broker has been given up: startPriceUpdates went on without a channel.
BrokerGivenUp == startup # "boot" /\ probe = "absent"

TickInFlight == \E i \in 1..Len(redisQueue) : redisQueue[i].op = "mset"

\* C26 as stated: no subscribe, unsubscribe or connect is processed between
\* the moment a tick writes the cache and the moment it emits.
C26_NoControlDuringTick ==
    TickInFlight => lastOp.op \notin {"subscribe", "unsubscribe", "connection", "connected"}

\* C26: while Redis is unavailable a tick emits in the step that fired it, so
\* no message is processed in between; whenever a tick emits, its events
\* reach exactly the connected members the rooms have at the moment of the
\* emit.
C26_TickAtomicWithoutRedis ==
    /\ ~redisAvailable => ~TickInFlight
    /\ lastOp.op = "broadcast" =>
          /\ rooms = lastOp.roomsBefore
          /\ \A c \in Ids : \A i \in 1..Len(emitted) :
                (i \in Received(c)) <=>
                    (Connected(c) /\ emitted[i].to \in lastOp.roomsBefore[c])

\* Without Redis a tick has emitted to a socket that had subscribed to SOL.
C26_Witness ==
    /\ ~redisAvailable
    /\ lastOp.op = "broadcast"
    /\ \E c \in Ids :
          /\ RoomOf("SOL") \in rooms[c]
          /\ \E i \in Received(c) : emitted[i].ev = "price-update"

(***************************************************************************)
(* Claims about the sweep of the rate limiter, checked under SpecRL.       *)
(***************************************************************************)
\* C27: a run of cleanupRateLimiters deletes exactly the entries whose
\* window ended more than 5000 ms before it, and leaves every other entry
\* as it was.
C27_SweepDeletesExactlyStale ==
    [][nextSweepAt' # nextSweepAt =>
          /\ DOMAIN rateLimiters' \subseteq DOMAIN rateLimiters
          /\ \A id \in DOMAIN rateLimiters :
                IF now - rateLimiters[id].resetAt > 5000
                THEN id \notin DOMAIN rateLimiters'
                ELSE /\ id \in DOMAIN rateLimiters'
                     /\ rateLimiters'[id] = rateLimiters[id]]_vars

\* A sweep at 10 s has deleted the entry of c1 and kept the entry of c2,
\* whose window had ended 4 s before.
C27_Witness ==
    /\ now = 10000
    /\ nextSweepAt = 20000
    /\ winCalls["c1"] > 0
    /\ "c1" \notin DOMAIN rateLimiters
    /\ "c2" \in DOMAIN rateLimiters
    /\ rateLimiters["c2"].resetAt = 6000

(***************************************************************************)
(* Claims about the facts the consumer applies, checked under SpecStart.   *)
(***************************************************************************)
\* C28: a fact for a symbol outside the known set leaves no trace: the store
\* holds a price and a history for the known symbols only, and nothing for
\* another symbol is buffered, cached or broadcast.
C28_UnknownSymbolIgnored ==
    /\ DOMAIN currentPrices = KnownSymbols
    /\ DOMAIN priceHistory = KnownSymbols
    /\ \A i \in 1..Len(updateBuffer) : updateBuffer[i].symbol \in KnownSymbols
    /\ DOMAIN memoryCache \subseteq {PriceKey(k) : k \in KnownSymbols}
    /\ DOMAIN redisStore \subseteq {PriceKey(k) : k \in KnownSymbols}
    /\ \A i \in 1..Len(emitted) :
          \A j \in 1..Len(Summary(emitted[i], FALSE).symbols) :
              Summary(emitted[i], FALSE).symbols[j] \in KnownSymbols

(***************************************************************************)
(* Claims about ticks beside a failing cache, checked under SpecFeed.      *)
(***************************************************************************)
\* C29: a failure of Redis or of the broker is never shown to a socket.  A
\* tick emits one price-update per fact to the room of its symbol and one
\* price-update-bulk to the all room, whether its cache write succeeded,
\* failed or was not attempted, and an error event is only ever the answer
\* to a rate-limited subscribe.
C29_BackendFailureNotSurfaced ==
    /\ lastOp.op = "broadcast" =>
          /\ Len(emitted) = Len(lastOp.arg) + 1
          /\ \A i \in 1..Len(lastOp.arg) :
                emitted[i] = [to |-> RoomOf(lastOp.arg[i].symbol), ev |-> "price-update",
                              data |-> lastOp.arg[i]]
          /\ emitted[Len(emitted)] =
                [to |-> AllRoom, ev |-> "price-update-bulk", data |-> lastOp.arg]
    /\ \A i \in 1..Len(emitted) : emitted[i].ev = "error" => Refused("subscribe")

\* The cache write of a tick failed with Redis connected, and a socket
\* received the tick's updates.
C29_Witness ==
    /\ redisAvailable
    /\ lastOp.op = "broadcast"
    /\ lastOp.results = <<FALSE>>
    /\ redisStore = << >>
    /\ \E c \in Ids : \E i \in Received(c) : emitted[i].ev = "price-update-bulk"

(***************************************************************************)
(* Claims about the age of what the memory cache returns, checked under    *)
(* SpecPrice.                                                              *)
(***************************************************************************)
\* The memory cache holds an entry under key k that is 3000 ms old or older.
Stale(k) == k \in DOMAIN memoryCache /\ now - memoryCache[k].timestamp >= 3000

\* C30: getPrice and getAllPrices return an entry of the memory cache only
\* if it was stored less than 3000 ms before the read: when Redis gave no
\* value and the entry is 3000 ms old or older, what they return for the
\* symbol is not the entry but a fact computed at the time of the read.
C30_FallbackYoungerThanTtl ==
    /\ (lastOp.op = "getPrice" /\ lastOp.arg.cached = Null /\ Stale(PriceKey(Asked))) =>
          /\ lastOp.results[1] # memoryCache[PriceKey(Asked)].data
          /\ lastOp.results[1].timestamp = now
    /\ (lastOp.op = "getAllPrices" /\ \E i \in 1..Len(SYMBOLS) : lastOp.arg.cached[i] = Null) =>
          \A i \in 1..Len(SYMBOLS) :
              Stale(PriceKey(SYMBOLS[i])) =>
                  /\ lastOp.results[1][i] # memoryCache[PriceKey(SYMBOLS[i])].data
                  /\ lastOp.results[1][i].timestamp = now

\* getAllPrices was called without Redis when all eight entries of the
\* memory cache were exactly 3000 ms old, and returned facts computed anew.
C30_Witness ==
    /\ lastOp.op = "getAllPrices"
    /\ ~redisAvailable
    /\ \A i \in 1..Len(SYMBOLS) :
          /\ PriceKey(SYMBOLS[i]) \in DOMAIN memoryCache
          /\ now - memoryCache[PriceKey(SYMBOLS[i])].timestamp = 3000
    /\ lastOp.results[1][1].timestamp = now

(***************************************************************************)
(* Claims about the snapshot of the store, checked under SpecPrice.        *)
(***************************************************************************)
\* v is the snapshot of the store: one view per known symbol, in the order
\* of SYMBOLS, with the price the store holds and, in hundredths of a
\* percent, the change against the reference price rounded to the nearest
\* hundredth.
IsSnapshot(v) ==
    /\ Len(v) = Len(SYMBOLS)
    /\ \A i \in 1..Len(SYMBOLS) :
          LET p == currentPrices[SYMBOLS[i]]
              r == priceHistory[SYMBOLS[i]].price24hAgo
          IN  /\ v[i].symbol = SYMBOLS[i]
              /\ v[i].price = p
              /\ 2 * Abs(v[i].change24h * r - 10000 * (p - r)) <= Abs(r)

\* The latest action took a snapshot: the generator's tick broadcast one, or
\* getAllPrices found neither cache complete and computed one.
TickSnapshot ==
    /\ generatorOn
    /\ lastOp.op \in {"tick", "broadcast"}
    /\ lastOp.op = "broadcast" => ~redisAvailable
PricesSnapshot ==
    /\ lastOp.op = "getAllPrices"
    /\ \E i \in 1..Len(SYMBOLS) : lastOp.arg.cached[i] = Null
    /\ \E i \in 1..Len(SYMBOLS) :
          ~(/\ PriceKey(SYMBOLS[i]) \in DOMAIN memoryCache
            /\ now - memoryCache[PriceKey(SYMBOLS[i])].timestamp < 3000)

\* C31: getCurrentPrices() returns exactly one view per known symbol, whose
\* price is the price the store holds for the symbol and whose change24h is
\* derived from that price and the symbol's reference price, to two decimals.
C31_SnapshotMatchesStore ==
    /\ TickSnapshot => IsSnapshot(lastOp.arg)
    /\ PricesSnapshot => IsSnapshot(lastOp.results[1])

\* getAllPrices computed a snapshot after the price of BTC had changed.
C31_Witness ==
    /\ PricesSnapshot
    /\ currentPrices["BTC"] # initialPrices["BTC"]
    /\ lastOp.results[1][1].change24h # 0

(***************************************************************************)
(* Claims about the order of the consumer's facts, checked under SpecStart. *)
(***************************************************************************)
\* C32: with the consumer, facts are applied in the order of delivery.  The
\* store's price of a symbol is the price of the valid message delivered
\* last for it, and the fact a tick broadcasts for a symbol carries the price
\* of the last message for it delivered before the tick.
C32_AppliedInDeliveryOrder ==
    consumerOn =>
        /\ (lastOp.op = "deliver" /\ Stageable(lastOp.arg[1])) =>
              currentPrices[lastOp.arg[1].data.symbol] = lastOp.arg[1].data.price
        /\ \A k \in DOMAIN staged : currentPrices[k] = staged[k].price
        /\ \A k \in (DOMAIN drained) \ (DOMAIN staged) : currentPrices[k] = drained[k].price
        /\ JustDrained =>
              \A i \in 1..Len(lastOp.arg) :
                  /\ lastOp.arg[i].symbol \in DOMAIN drained
                  /\ lastOp.arg[i].price = drained[lastOp.arg[i].symbol].price

\* Two messages for SOL were delivered, 9000 and then -20, and the tick
\* after them broadcast the second.
C32_Witness ==
    /\ consumerOn
    /\ JustDrained
    /\ deliveries = 2
    /\ currentPrices["SOL"] = -20
    /\ \E i \in 1..Len(lastOp.arg) : lastOp.arg[i].symbol = "SOL" /\ lastOp.arg[i].price = -20

(***************************************************************************)
(* Claims about the connections, checked under SpecSock.                    *)
(***************************************************************************)
\* C33: a connection whose connect handling has ended stays a member of the
\* all-symbols group until it disconnects, whatever it subscribes to or
\* unsubscribes from, and so every bulk update sent to the group reaches it.
C33_StaysInAllGroup ==
    \A c \in Ids :
        Open(c) =>
            /\ AllRoom \in rooms[c]
            /\ \A i \in 1..Len(emitted) :
                  (emitted[i].ev = "price-update-bulk" /\ emitted[i].to = AllRoom) =>
                      i \in Received(c)

(***************************************************************************)
(* Claims about the cleanup of the limiters, checked under SpecRL.          *)
(***************************************************************************)
\* C34: the cleanup is transparent.  Whatever the interleaving of cleanups
\* and calls, a call of isRateLimited returns what it returns in the run of
\* the same calls without any cleanup (unswept), and leaves the same count and
\* the same end of window for its id.
C34_SweepTransparent ==
    rlCaller # NoId =>
        /\ rlResults = unswept.results
        /\ rlCaller \in DOMAIN rateLimiters
        /\ rlCaller \in DOMAIN unswept.rl
        /\ rateLimiters[rlCaller].count = unswept.rl[rlCaller].count
        /\ rateLimiters[rlCaller].resetAt = unswept.rl[rlCaller].resetAt

\* A call found no entry because a cleanup had deleted it: without the
\* cleanup it would have found one.
C34_Witness ==
    /\ rlCaller # NoId
    /\ rlPrev = NoLimiter
    /\ unswept.prev # NoLimiter

\* C35: every subscribe the server receives from a connected client is
\* answered with exactly one subscribed or error event, a subscribe that
\* arrives while the connection handler awaits the initial snapshot included.
\* The answer is sent by the step that receives the message or by none: no
\* later step knows of the message.
C35_SubscribeAnswered ==
    lastOp.op \in {"subscribe", "unheard"} =>
        Cardinality({i \in 1..Len(emitted) :
                        /\ emitted[i].to = lastOp.sock
                        /\ emitted[i].ev \in {"subscribed", "error"}}) = 1

\* C36: the counter of active connections equals the number of sockets
\* connected at the time and is never negative, whatever the interleaving of
\* connects and disconnects, a disconnect while the connection handler awaits
\* the initial snapshot included.
C36_CountIsConnected ==
    /\ connectionCount >= 0
    /\ connectionCount = Cardinality({c \in Ids : Connected(c)})

(***************************************************************************)
(* Claims about the connection to the broker, checked under SpecBroker.     *)
(***************************************************************************)
\* The calls that are making an attempt: between their call of amqp.connect
\* and the end of their try block.
Attempting == {k \in BrokerCallers : brokerCalls.of[k].pc \in {"amqpConnect", "createChannel"}}

\* C37: connect() is single-flight.  At most one attempt to connect is in
\* progress at any time, and a call that overlaps an attempt returns what the
\* attempt returned: the same channel, or none when it failed.
C37_SingleFlight ==
    /\ Cardinality(Attempting) <= 1
    /\ \A k \in BrokerCallers :
          (brokerCalls.of[k].pc = "returned" /\ brokerCalls.of[k].joined > 0) =>
              brokerCalls.of[k].result = brokerCalls.outcomes[brokerCalls.of[k].joined]

(***************************************************************************)
(* Claims about the tiers of getAllPrices, checked under SpecPrice.         *)
(***************************************************************************)
\* What cache.mget gave the latest getAllPrices, and what it returned.
MgetAnswer == lastOp.arg.cached
AllReturned == lastOp.results[1]

EveryKeyHit == \A i \in 1..Len(SYMBOLS) : MgetAnswer[i] # Null
EveryEntryFresh ==
    \A i \in 1..Len(SYMBOLS) :
        /\ PriceKey(SYMBOLS[i]) \in DOMAIN memoryCache
        /\ now - memoryCache[PriceKey(SYMBOLS[i])].timestamp < 3000

\* The three tiers a result can come from, entry by entry.
AllFromCache == \A i \in 1..Len(SYMBOLS) : AllReturned[i] = MgetAnswer[i]
AllFromFallback ==
    \A i \in 1..Len(SYMBOLS) :
        /\ PriceKey(SYMBOLS[i]) \in DOMAIN memoryCache
        /\ AllReturned[i] = memoryCache[PriceKey(SYMBOLS[i])].data
AllComputed ==
    \A i \in 1..Len(SYMBOLS) :
        AllReturned[i] = getPriceData(currentPrices, priceHistory, SYMBOLS[i], now,
                                      lastOp.arg.mock)

\* C38: getAllPrices returns exactly one entry per known symbol, none
\* absent, in the order of the symbols, and all from one tier: the external
\* cache if every key hit, else the fallback if every entry of it is fresh,
\* else freshly computed.  It never mixes the tiers.
C38_SingleTier ==
    lastOp.op = "getAllPrices" =>
        /\ Len(AllReturned) = Len(SYMBOLS)
        /\ \A i \in 1..Len(SYMBOLS) :
              AllReturned[i] # Null /\ AllReturned[i].symbol = SYMBOLS[i]
        /\ IF EveryKeyHit THEN AllFromCache
           ELSE IF EveryEntryFresh THEN AllFromFallback
           ELSE AllComputed

\* The external cache hit for some keys and missed for others, and the
\* result, whose entries differ from the cached ones, is all computed.
C38_Witness ==
    /\ lastOp.op = "getAllPrices"
    /\ ~EveryKeyHit
    /\ ~EveryEntryFresh
    /\ \E i \in 1..Len(SYMBOLS) : MgetAnswer[i] # Null /\ MgetAnswer[i] # AllReturned[i]
    /\ AllComputed

(***************************************************************************)
(* Claims about the messages without a fact, checked under SpecStart.       *)
(***************************************************************************)
\* The latest step delivered msg, which parses as JSON and has no symbol or
\* a falsy price.
DeliveredNoFact(msg) ==
    /\ msg.text = "json"
    /\ msg.data.symbol = "" \/ msg.data.price = 0

\* C39: a delivered message that parses as JSON and has no symbol, or a
\* price that is missing or 0, is acked and not nacked, and its delivery
\* changes neither the store nor the buffer.
C39_NoFactAckedAndIgnored ==
    [][(lastOp'.op = "deliver" /\ deliveries' = deliveries + 1
            /\ DeliveredNoFact(lastOp'.arg[1])) =>
          /\ lastAck' = <<Ack>>
          /\ UNCHANGED <<currentPrices, priceHistory, updateBuffer>>]_vars

\* A message for ETH with the price 0 was delivered after a fact was
\* staged, and was acked.
C39_Witness ==
    /\ lastOp.op = "deliver"
    /\ DeliveredNoFact(lastOp.arg[1])
    /\ lastOp.arg[1].data.symbol = "ETH"
    /\ lastAck = <<Ack>>
    /\ updateBuffer # <<>>

(***************************************************************************)
(* Claims about the ticks of the consumer, checked under SpecStart.         *)
(***************************************************************************)
\* The bulk updates to the all group among the events es.
BulksIn(es) ==
    {i \in 1..Len(es) : es[i].ev = "price-update-bulk" /\ es[i].to = AllRoom}

\* C40: with the consumer, a tick that finds the buffer empty emits nothing
\* and writes nothing to either cache; every bulk update sent to the all
\* group has at least one fact, and its facts are those the tick it comes
\* from took from the buffer: facts staged since the drain before.
C40_EmptyTickSilent ==
    [][broadcastLoopOn =>
          /\ (ticks' = ticks + 1 /\ updateBuffer = <<>>) =>
                /\ emitted' = <<>>
                /\ UNCHANGED <<memoryCache, redisStore, redisQueue>>
          /\ (ticks' = ticks + 1 /\ updateBuffer # <<>>) =>
                /\ lastOp'.arg = updateBuffer
                /\ Facts(lastOp'.arg) \subseteq Latest(staged)
                /\ updateBuffer' = <<>>
                /\ redisQueue' # redisQueue =>
                      redisQueue'[Len(redisQueue')].data = updateBuffer
          /\ \A i \in BulksIn(emitted') :
                /\ Len(emitted'[i].data) >= 1
                /\ emitted'[i].data = lastOp'.arg
                /\ ticks' = ticks => emitted'[i].data = redisQueue[Answered(redisQueue)].data]_vars

\* BTC was delivered and drained by the first tick, SOL was delivered and
\* the second tick sent a bulk update with SOL alone.
C40_Witness ==
    /\ broadcastLoopOn
    /\ ticks = 2
    /\ deliveries = 2
    /\ currentPrices["BTC"] = 4600000
    /\ DOMAIN drained = {"SOL"}
    /\ \E i \in BulksIn(emitted) : SymbolsOf(emitted[i].data) = <<"SOL">>

============================================================================
